---------------------------- MODULE Spec2Model ----------------------------
(***************************************************************************)
(* A model of the framework package (typed request binding and routing).   *)
(*                                                                         *)
(* Six specifications share the module:                                    *)
(*   Spec      - the registry and router composition: route groups, their  *)
(*               middleware slices (Go slices over shared backing arrays),  *)
(*               endpoint records, the registry f.endpoints, the mux, and  *)
(*               requests travelling through the composed handler chain.   *)
(*   SpecRegistry - the same registry under the calls that document        *)
(*               endpoints (SetSummary, SetDescription, SetTags).          *)
(*   SpecParse - the request parse executor: one request against one       *)
(*               compiled parse plan, through parseWithPlan, the handler   *)
(*               and writeResponse.                                        *)
(*   SpecSchema - the registration helpers of package handler and the      *)
(*               schema generator of package openapi over the registry.    *)
(*   SpecServing - several requests to one endpoint served at once, each   *)
(*               by its own goroutine, interleaved step by step.           *)
(*   SpecConvert - the field setters of createFieldSetter applied to a     *)
(*               text, for every field kind.                               *)
(***************************************************************************)
EXTENDS Integers, Sequences, FiniteSets, TLC

VARIABLES
    heap,        \* backing arrays of the []Middleware slices
    groups,      \* the *Group objects created so far
    specs,       \* the *EndpointSpec objects created so far
    endpoints,   \* Framework.endpoints: the registry, a list of *EndpointSpec
    mux,         \* Framework.mux: pattern -> final (wrapped) handler
    planBuilds,  \* number of buildRequestParser calls made so far
    crashed,     \* a registration panicked (mux.Handle on a taken pattern)
    calls,       \* number of registration-time API calls made so far
    lastRequest, \* the request served last: its pattern and what happened
    endpoint,    \* parse executor: the endpoint (Req, Resp, compiled plan)
    request,     \* parse executor: the *http.Request being served
    outcome,     \* parse executor: what serving that request did
    generated,   \* schema generator: the documents generated so far
    tasks,       \* concurrent serving: the requests in flight, one per goroutine
    reqValues,   \* concurrent serving: the request values (var req Req), by address
    conversion   \* converters: a field kind, a text and what its setter did

routerVars == <<heap, groups, specs, endpoints, mux, planBuilds, crashed, calls,
                lastRequest>>

parseVars == <<endpoint, request, outcome>>

schemaVars == <<generated>>

servingVars == <<tasks, reqValues>>

convertVars == <<conversion>>

-----------------------------------------------------------------------------
(* Bounds of the model *)

\* the number of registration-time calls a run makes (groups created, Use,
\* CreateEndpoint, setters, RegisterEndpoint); requests are not counted
MaxCalls == 7

(* Inputs *)
UseArgCounts == {1, 2}
Prefixes == {"/a"}
RelPaths == {"/x", "/y"}
Methods == {"GET"}
Summaries == {"s1"}
Descriptions == {"d1"}
TagLists == {<<"t1">>}

-----------------------------------------------------------------------------
(* Go slices: a slice is (array, len, cap); arr = 0 is the nil/empty array *)

NilMw == <<"nil", 0, 0>>

NilSlice == [arr |-> 0, len |-> 0, cap |-> 0]

\* the elements a slice shows: array[0:len]
SliceElems(h, s) == IF s.len = 0 THEN <<>> ELSE SubSeq(h[s.arr], 1, s.len)

\* runtime growslice for 8-byte elements: double (or the needed length when
\* that is larger), rounded up to the allocator's size class
RoundUpCap(n) == IF n <= 4 THEN n ELSE IF n % 2 = 0 THEN n ELSE n + 1

GrowCap(oldCap, newLen) ==
    RoundUpCap(IF newLen > 2 * oldCap THEN newLen ELSE 2 * oldCap)

\* append(s, xs...): writes in place when the capacity allows, else copies
\* into a fresh array. Returns the new heap and the resulting slice.
GoAppend(h, s, xs) ==
    IF Len(xs) = 0 THEN [heap |-> h, slice |-> s]
    ELSE IF s.len + Len(xs) <= s.cap
    THEN [heap |-> [h EXCEPT ![s.arr] =
                      [i \in 1..s.cap |->
                         IF i > s.len /\ i <= s.len + Len(xs)
                         THEN xs[i - s.len] ELSE h[s.arr][i]]],
          slice |-> [arr |-> s.arr, len |-> s.len + Len(xs), cap |-> s.cap]]
    ELSE LET c == GrowCap(s.cap, s.len + Len(xs))
             old == SliceElems(h, s)
         IN [heap |-> Append(h, [i \in 1..c |->
                                   IF i <= s.len THEN old[i]
                                   ELSE IF i <= s.len + Len(xs) THEN xs[i - s.len]
                                   ELSE NilMw]),
             slice |-> [arr |-> Len(h) + 1, len |-> s.len + Len(xs), cap |-> c]]

-----------------------------------------------------------------------------
(* The garbage collector: arrays no slice refers to are freed, and an array
   slot beyond the length of every slice over it is never read again. States
   are kept up to the addresses of the arrays: arrays are numbered in the order
   the groups and then the endpoint records refer to them. *)

SliceRefs(gs, ss) ==
    [i \in 1..(Len(gs) + 2 * Len(ss)) |->
        IF i <= Len(gs) THEN gs[i].middlewares
        ELSE IF (i - Len(gs)) % 2 = 1 THEN ss[(i - Len(gs) + 1) \div 2].Middlewares
        ELSE ss[(i - Len(gs)) \div 2].AllMiddlewares]

RECURSIVE LiveArrays(_, _, _)
LiveArrays(refs, i, acc) ==
    IF i > Len(refs) THEN acc
    ELSE IF refs[i].arr = 0 \/ (\E k \in 1..Len(acc) : acc[k] = refs[i].arr)
    THEN LiveArrays(refs, i + 1, acc)
    ELSE LiveArrays(refs, i + 1, Append(acc, refs[i].arr))

Collect(h, gs, ss) ==
    LET refs == SliceRefs(gs, ss)
        live == LiveArrays(refs, 1, <<>>)
        addr(a) == IF a = 0 THEN 0 ELSE CHOOSE k \in 1..Len(live) : live[k] = a
        move(sl) == [sl EXCEPT !.arr = addr(sl.arr)]
        used(a) == CHOOSE n \in 0..Len(h[a]) :
                      /\ \A i \in 1..Len(refs) : refs[i].arr = a => refs[i].len <= n
                      /\ \E i \in 1..Len(refs) : refs[i].arr = a /\ refs[i].len = n
    IN [heap |-> [k \in 1..Len(live) |->
                    [j \in 1..Len(h[live[k]]) |->
                       IF j <= used(live[k]) THEN h[live[k]][j] ELSE NilMw]],
        groups |-> [i \in 1..Len(gs) |->
                      [gs[i] EXCEPT !.middlewares = move(gs[i].middlewares)]],
        specs |-> [e \in 1..Len(ss) |->
                      [ss[e] EXCEPT !.Middlewares = move(ss[e].Middlewares),
                                    !.AllMiddlewares = move(ss[e].AllMiddlewares)]]]

-----------------------------------------------------------------------------
(* Routers: the Framework (router 0) and the groups (routers 1..) *)

FrameworkRouter == 0

Routers == {FrameworkRouter} \cup (1..Len(groups))

getPrefix(r) == IF r = FrameworkRouter THEN "" ELSE groups[r].prefix

getMiddlewares(r) == IF r = FrameworkRouter THEN NilSlice ELSE groups[r].middlewares

\* the middleware list a group shows
GroupMws(g) == SliceElems(heap, groups[g].middlewares)

\* the middleware list an endpoint record shows
AllMws(e) == SliceElems(heap, specs[e].AllMiddlewares)

EndpointMws(e) == SliceElems(heap, specs[e].Middlewares)

-----------------------------------------------------------------------------
(* Group operations *)

\* one more call of the registration interface
Called == calls < MaxCalls /\ calls' = calls + 1

\* the arguments of a variadic Use call: n middleware values. Every value
\* passed is a function of its own, named by the router or endpoint it is
\* given to and its place in that list.
MiddlewareArgs(kind, owner, from, n) == [i \in 1..n |-> <<kind, owner, from + i>>]

\* func (f *Framework) Group(prefix string) *Group
FrameworkGroup(prefix) ==
    /\ ~crashed
    /\ Called
    /\ groups' = Append(groups, [prefix |-> prefix,
                                 middlewares |-> NilSlice,
                                 parent |-> FrameworkRouter,
                                 arg |-> prefix,
                                 inherited |-> <<>>])
    /\ UNCHANGED <<heap, specs, endpoints, mux, planBuilds, crashed,
                   lastRequest>>

\* func (g *Group) Use(middleware ...Middleware) *Group
GroupUse(g, n) ==
    /\ ~crashed
    /\ Called
    /\ LET ms == MiddlewareArgs("group", g, groups[g].middlewares.len, n)
           a == GoAppend(heap, groups[g].middlewares, ms)
           c == Collect(a.heap, [groups EXCEPT ![g].middlewares = a.slice], specs)
       IN /\ heap' = c.heap
          /\ groups' = c.groups
          /\ specs' = c.specs
    /\ UNCHANGED <<endpoints, mux, planBuilds, crashed,
                   lastRequest>>

\* (mutant) the sub-group is given the parent's slice itself, not a copy
ShareParentMiddlewares(h, s) == [heap |-> h, slice |-> s]

\* the slice a new sub-group gets: append([]Middleware{}, g.middlewares...)
CopyParentMiddlewares(h, s) == GoAppend(h, NilSlice, SliceElems(h, s))

\* func (g *Group) Group(prefix string) *Group
\* (parent, arg and inherited are history fields: the group it was made
\* from, the prefix argument and the list that group showed at that time)
GroupGroup(g, prefix) ==
    /\ ~crashed
    /\ Called
    /\ LET a == CopyParentMiddlewares(heap, groups[g].middlewares)
           c == Collect(a.heap,
                        Append(groups, [prefix |-> groups[g].prefix \o prefix,
                                        middlewares |-> a.slice,
                                        parent |-> g,
                                        arg |-> prefix,
                                        inherited |-> GroupMws(g)]),
                        specs)
       IN /\ heap' = c.heap
          /\ groups' = c.groups
          /\ specs' = c.specs
    /\ UNCHANGED <<endpoints, mux, planBuilds, crashed,
                   lastRequest>>

-----------------------------------------------------------------------------
(* Endpoint operations *)

\* buildRequestParser, seen from the registry: the n-th call yields plan n
\* (the plan itself is modelled by buildRequestParser below)
planBuilt(n) == n + 1

\* the *EndpointSpec CreateEndpoint builds for a handler of type
\* Handler[Req, Resp]: the types are taken from the handler's signature
\* (router is a history field: the router of the last RegisterEndpoint)
EndpointSpec(method, path, reqType, respType, parser) ==
    [Method |-> method,
     RelativePath |-> path,
     FullPath |-> "",
     Summary |-> "",
     Description |-> "",
     Tags |-> <<>>,
     RequestType |-> reqType,
     ResponseType |-> respType,
     Middlewares |-> NilSlice,
     AllMiddlewares |-> NilSlice,
     parser |-> parser,
     router |-> FrameworkRouter]

\* func CreateEndpoint(method, path, handler) Endpoint
CreateEndpoint(method, path, reqType, respType) ==
    /\ ~crashed
    /\ Called
    /\ planBuilds' = planBuilt(planBuilds)
    /\ specs' = Append(specs, EndpointSpec(method, path, reqType, respType,
                                           planBuilt(planBuilds)))
    /\ UNCHANGED <<heap, groups, endpoints, mux, crashed, lastRequest>>

\* func (b *EndpointSpec) SetSummary(summary string)
SetSummary(e, s) ==
    /\ ~crashed
    /\ Called
    /\ specs' = [specs EXCEPT ![e].Summary = s]
    /\ UNCHANGED <<heap, groups, endpoints, mux, planBuilds, crashed,
                   lastRequest>>

\* func (b *EndpointSpec) SetDescription(description string)
SetDescription(e, d) ==
    /\ ~crashed
    /\ Called
    /\ specs' = [specs EXCEPT ![e].Description = d]
    /\ UNCHANGED <<heap, groups, endpoints, mux, planBuilds, crashed,
                   lastRequest>>

\* func (b *EndpointSpec) SetTags(tags ...string)
SetTags(e, t) ==
    /\ ~crashed
    /\ Called
    /\ specs' = [specs EXCEPT ![e].Tags = t]
    /\ UNCHANGED <<heap, groups, endpoints, mux, planBuilds, crashed,
                   lastRequest>>

\* func (b *EndpointSpec) Use(middleware ...Middleware)
EndpointUse(e, n) ==
    /\ ~crashed
    /\ Called
    /\ LET ms == MiddlewareArgs("endpoint", e, specs[e].Middlewares.len, n)
           a == GoAppend(heap, specs[e].Middlewares, ms)
           c == Collect(a.heap, groups, [specs EXCEPT ![e].Middlewares = a.slice])
       IN /\ heap' = c.heap
          /\ groups' = c.groups
          /\ specs' = c.specs
    /\ UNCHANGED <<endpoints, mux, planBuilds, crashed,
                   lastRequest>>

-----------------------------------------------------------------------------
(* Registration *)

\* createTypeSafeHandler(f, handler, parser): the closure keeps the parser it
\* was given; chain lists the middleware wrapped around it, outermost first
createTypeSafeHandler(e, parser) == [chain |-> <<>>, spec |-> e, parser |-> parser]

\* route.handlerPrepFn(f): set by CreateEndpoint, it passes the parser built there
handlerPrepFn(ss, e) == createTypeSafeHandler(e, ss[e].parser)

\* a Middleware applied to a handler: m(next) wraps next, m runs first
ApplyMiddleware(m, next) == [next EXCEPT !.chain = <<m>> \o @]

\* (mutant) the loop runs forward: the last middleware ends up outermost
RECURSIVE WrapMiddlewaresForward(_, _, _)
WrapMiddlewaresForward(all, i, finalHandler) ==
    IF i = 0 THEN finalHandler
    ELSE WrapMiddlewaresForward(all, i - 1,
                                ApplyMiddleware(all[Len(all) - i + 1], finalHandler))

\* for i := len(all) - 1; i >= 0; i-- { finalHandler = all[i](finalHandler) }
RECURSIVE WrapMiddlewares(_, _, _)
WrapMiddlewares(all, i, finalHandler) ==
    IF i = 0 THEN finalHandler
    ELSE WrapMiddlewares(all, i - 1, ApplyMiddleware(all[i], finalHandler))

\* route.AllMiddlewares = append(router.getMiddlewares(), route.Middlewares...)
CombineMiddlewares(h, groupMws, endpointMws) ==
    GoAppend(h, groupMws, SliceElems(h, endpointMws))

\* (mutant) the prefix and the path are joined with a separator
FullPathJoined(prefix, relativePath) == prefix \o "/" \o relativePath

\* route.FullPath = router.getPrefix() + route.RelativePath
FullPath(prefix, relativePath) == prefix \o relativePath

Pattern(method, fullPath) == method \o " " \o fullPath

\* what RegisterEndpoint(router, e) leaves behind when the endpoint records
\* are ss: the full path and the combined middleware in the record, the
\* record appended to f.endpoints, the wrapped handler in the mux
\* (mux.HandleFunc panics on a pattern already taken)
\* (router, regGroup and regEndpoint are history fields of the mux entry: the
\* router, and the group's and the endpoint's own middleware lists at the
\* time of the call)
Registered(ss, r, e) ==
    LET a == CombineMiddlewares(heap, getMiddlewares(r), ss[e].Middlewares)
        fullPath == FullPath(getPrefix(r), ss[e].RelativePath)
        all == SliceElems(a.heap, a.slice)
        finalHandler == WrapMiddlewares(all, Len(all), handlerPrepFn(ss, e))
        pattern == Pattern(ss[e].Method, fullPath)
        c == Collect(a.heap, groups,
                     [ss EXCEPT ![e].AllMiddlewares = a.slice,
                                ![e].FullPath = fullPath,
                                ![e].router = r])
    IN  [heap |-> c.heap, groups |-> c.groups, specs |-> c.specs,
         endpoints |-> Append(endpoints, e),
         crashed |-> pattern \in DOMAIN mux,
         mux |-> IF pattern \in DOMAIN mux THEN mux
                 ELSE mux @@ (pattern :>
                        [h |-> finalHandler,
                         router |-> r,
                         regGroup |-> SliceElems(heap, getMiddlewares(r)),
                         regEndpoint |-> SliceElems(heap, ss[e].Middlewares)])]

\* func RegisterEndpoint(router Router, e Endpoint)
RegisterEndpoint(r, e) ==
    /\ ~crashed
    /\ Called
    /\ LET reg == Registered(specs, r, e)
       IN /\ heap' = reg.heap
          /\ groups' = reg.groups
          /\ specs' = reg.specs
          /\ endpoints' = reg.endpoints
          /\ crashed' = reg.crashed
          /\ mux' = reg.mux
    /\ UNCHANGED <<planBuilds, lastRequest>>

-----------------------------------------------------------------------------
(* Requests through the final handler *)

\* (mutant) the plan is compiled again for every request
HandlerParseRebuilding(h, builds) ==
    [parser |-> planBuilt(builds), builds |-> planBuilt(builds)]

\* the typed handler function parses with the parser its closure holds:
\* no plan is built at request time
HandlerParse(h, builds) == [parser |-> h.parser, builds |-> builds]

\* finalHandler.ServeHTTP(w, r): every middleware runs its part before next,
\* calls next.ServeHTTP and runs its part after next; the innermost handler is
\* the closure of createTypeSafeHandler. The events in the order they happen.
RECURSIVE ServeChain(_, _)
ServeChain(h, i) ==
    IF i > Len(h.chain) THEN << <<"handler", h.spec>> >>
    ELSE << <<"enter", h.chain[i]>> >> \o ServeChain(h, i + 1)
                                      \o << <<"exit", h.chain[i]>> >>

\* (mutant) the chain is composed when the request arrives, from the lists
\* the router and the endpoint record show at that time
ServeHTTPComposing(pattern) ==
    /\ ~crashed
    /\ LET e == mux[pattern].h.spec
           all == SliceElems(heap, getMiddlewares(mux[pattern].router)) \o EndpointMws(e)
           h == WrapMiddlewares(all, Len(all), handlerPrepFn(specs, e))
           p == HandlerParse(h, planBuilds)
       IN /\ planBuilds' = p.builds
          /\ lastRequest' = [pattern |-> pattern,
                             regGroup |-> mux[pattern].regGroup,
                             regEndpoint |-> mux[pattern].regEndpoint,
                             spec |-> h.spec,
                             usedParser |-> p.parser,
                             log |-> ServeChain(h, 1)]
    /\ UNCHANGED <<heap, groups, specs, endpoints, mux, crashed, calls>>

\* func (f *Framework) ServeHTTP(w, r): the mux picks the final handler
\* registered for the pattern the request matches
ServeHTTP(pattern) ==
    /\ ~crashed
    /\ LET h == mux[pattern].h
           p == HandlerParse(h, planBuilds)
       IN /\ planBuilds' = p.builds
          /\ lastRequest' = [pattern |-> pattern,
                             regGroup |-> mux[pattern].regGroup,
                             regEndpoint |-> mux[pattern].regEndpoint,
                             spec |-> h.spec,
                             usedParser |-> p.parser,
                             log |-> ServeChain(h, 1)]
    /\ UNCHANGED <<heap, groups, specs, endpoints, mux, crashed, calls>>

-----------------------------------------------------------------------------
(* The registry and router specification *)

NoRequest == [pattern |-> ""]

RouterInit ==
    /\ heap = <<>>
    /\ groups = <<>>
    /\ specs = <<>>
    /\ endpoints = <<>>
    /\ mux = <<>>
    /\ planBuilds = 0
    /\ crashed = FALSE
    /\ calls = 0
    /\ lastRequest = NoRequest
-----------------------------------------------------------------------------
(* Request types.  A Go struct type is its name and the list of its fields; *)
(* a field carries its Go name, its json tag, its kind (and element kind    *)
(* for a slice), whether it is exported, its validate rules, whether its    *)
(* type implements FileUpload, the fields of a struct kind, and the struct  *)
(* tag naming its source (route, header, query, form or body), if any.      *)

IntKinds == {"int", "int8", "int16", "int32", "int64"}
UintKinds == {"uint", "uint8", "uint16", "uint32", "uint64"}
FloatKinds == {"float32", "float64"}

Required == [tag |-> "required", param |-> 0]
Min(n) == [tag |-> "min", param |-> n]

Field(name, json, kind, elem, validate) ==
    [name |-> name, json |-> json, kind |-> kind, elem |-> elem,
     exported |-> TRUE, validate |-> validate, fileUpload |-> FALSE,
     fields |-> <<>>, source |-> <<>>]

\* a field of type FileField (a struct, not a pointer; it implements FileUpload)
FileFieldType(name, json, validate) ==
    [name |-> name, json |-> json, kind |-> "struct", elem |-> "",
     exported |-> TRUE, validate |-> validate, fileUpload |-> TRUE,
     fields |-> <<>>, source |-> <<>>]

\* a top-level field holding an anonymous struct: Route, Header, Query, ...
StructField(name, validate, fields) ==
    [name |-> name, json |-> "", kind |-> "struct", elem |-> "",
     exported |-> TRUE, validate |-> validate, fileUpload |-> FALSE,
     fields |-> fields, source |-> <<>>]

\* the field with the struct tag key:"name", as in `route:"id"` or `body:""`
Tagged(field, key, name) == [field EXCEPT !.source = <<key, name>>]

\* GET /items/{id}?ids=..&ids=..: an integer route value, a header and a
\* slice-typed query field
ItemsRequest ==
    [name |-> "ItemsRequest",
     fields |-> <<
        StructField("Route", <<>>, <<Field("ItemID", "id", "int", "", <<Required>>)>>),
        StructField("Header", <<>>, <<Field("APIKey", "X-API-Key", "string", "", <<>>)>>),
        StructField("Query", <<>>, <<Field("IDs", "ids", "slice", "int", <<>>)>>) >>]

\* POST /orgs/{org}/members with a JSON body: name required,min=3 and
\* age required,min=18
MemberRequest ==
    [name |-> "MemberRequest",
     fields |-> <<
        StructField("Route", <<>>, <<Field("OrgID", "org", "int", "", <<Required>>)>>),
        StructField("Header", <<>>, <<Field("APIKey", "X-API-Key", "string", "", <<Required>>)>>),
        StructField("Body", <<Required>>,
                    <<Field("Name", "name", "string", "", <<Required, Min(3)>>),
                      Field("Age", "age", "int", "", <<Required, Min(18)>>)>>) >>]

\* POST /users/{id}/avatar with a multipart form: UploadAvatarRequest of
\* example/main.go
UploadAvatarRequest ==
    [name |-> "UploadAvatarRequest",
     fields |-> <<
        StructField("Route", <<>>, <<Field("UserID", "id", "string", "", <<Required>>)>>),
        StructField("Header", <<>>, <<Field("APIKey", "X-API-Key", "string", "", <<Required>>)>>),
        StructField("Form", <<>>, <<FileFieldType("Avatar", "avatar", <<Required>>)>>) >>]

\* a request type with a slice-typed header field and a scalar query field
TaggedRequest ==
    [name |-> "TaggedRequest",
     fields |-> <<
        StructField("Header", <<>>, <<Field("Tags", "X-Tags", "slice", "string", <<>>)>>),
        StructField("Query", <<>>, <<Field("Page", "page", "int", "", <<>>)>>) >>]

\* a field whose type is a slice of structs: []struct{ fields }
SliceOfStructs(name, json, fields) ==
    [Field(name, json, "slice", "struct", <<>>) EXCEPT !.fields = fields]

\* a struct-typed field with a json tag
Struct(name, json, fields) == [StructField(name, <<>>, fields) EXCEPT !.json = json]

\* PATCH /users/{id} declared with source tags on the fields, the style of
\* README.md: a route value without a validate tag, a required header, a
\* query value and a body with a required and an optional property, a
\* struct (holding a struct), a slice of strings and a slice of structs
PatchUserRequest ==
    [name |-> "PatchUserRequest",
     fields |-> <<
        Tagged(Field("UserID", "", "string", "", <<>>), "route", "id"),
        Tagged(Field("APIKey", "", "string", "", <<Required>>), "header", "X-API-Key"),
        Tagged(Field("Page", "", "int", "", <<Min(1)>>), "query", "page"),
        Tagged(StructField("Body", <<Required>>,
                    <<Field("Name", "name", "string", "", <<Required, Min(3)>>),
                      Field("Age", "age", "int", "", <<Min(18)>>),
                      Struct("Owner", "owner",
                             <<Field("Email", "email", "string", "", <<Required>>),
                               Struct("Address", "address",
                                      <<Field("City", "city", "string", "", <<>>)>>)>>),
                      Field("Tags", "tags", "slice", "string", <<>>),
                      SliceOfStructs("Lines", "lines",
                                     <<Field("SKU", "sku", "string", "", <<Required>>)>>)>>),
               "body", "") >>]

\* POST /transfers with a JSON body that holds a struct: both the transfer
\* and its owner have a required Name
TransferRequest ==
    [name |-> "TransferRequest",
     fields |-> <<
        StructField("Body", <<Required>>,
                    <<Field("Name", "name", "string", "", <<Required, Min(3)>>),
                      Struct("Owner", "owner",
                             <<Field("Name", "name", "string", "", <<Required>>)>>)>>) >>]

\* a request type with a validated query field and a Form group holding two
\* text fields and a file field
SubmitRequest ==
    [name |-> "SubmitRequest",
     fields |-> <<
        StructField("Query", <<>>, <<Field("Page", "page", "int", "", <<Min(1)>>)>>),
        StructField("Form", <<>>,
                    <<Field("Title", "title", "string", "", <<>>),
                      Field("Note", "note", "string", "", <<Required>>),
                      FileFieldType("Doc", "doc", <<>>)>>) >>]

\* a request type whose route, header and query fields have kinds for which
\* createFieldSetter has no case
TraceRequest ==
    [name |-> "TraceRequest",
     fields |-> <<
        StructField("Route", <<>>, <<Field("Point", "at", "complex128", "", <<>>)>>),
        StructField("Header", <<>>, <<Field("Trace", "X-Trace", "map", "", <<>>)>>),
        StructField("Query", <<>>, <<Field("Ratio", "ratio", "complex128", "", <<>>)>>) >>]

-----------------------------------------------------------------------------
(* Texts.  A Go string that the program scans is a sequence of characters.  *)

DigitChars == <<"0", "1", "2", "3", "4", "5", "6", "7", "8", "9">>
Digits == {DigitChars[i] : i \in 1..Len(DigitChars)}
DigitValue(c) == (CHOOSE i \in 1..Len(DigitChars) : DigitChars[i] = c) - 1
Signs == {"+", "-"}
Spaces == {" "}
Period == {"."}

\* the number of leading characters of t that lie in set
RECURSIVE AcceptRun(_, _)
AcceptRun(t, set) ==
    IF t # <<>> /\ Head(t) \in set THEN 1 + AcceptRun(Tail(t), set) ELSE 0

Drop(t, n) == SubSeq(t, n + 1, Len(t))

RECURSIVE DecimalValue(_)
DecimalValue(ds) ==
    IF ds = <<>> THEN 0
    ELSE 10 * DecimalValue(SubSeq(ds, 1, Len(ds) - 1)) + DigitValue(ds[Len(ds)])

\* strconv.ParseUint(tok, 10, 64): base 10 admits no underscore
ParseUint(tok) ==
    IF tok # <<>> /\ \A i \in 1..Len(tok) : tok[i] \in Digits
    THEN [ok |-> TRUE, n |-> DecimalValue(tok)]
    ELSE [ok |-> FALSE, n |-> 0]

\* fmt's scanNumber: at least one of "0123456789_", then the longest run
scanNumber(t) ==
    IF t = <<>> \/ Head(t) \notin Digits \cup {"_"}
    THEN [ok |-> FALSE, tok |-> <<>>]
    ELSE [ok |-> TRUE, tok |-> SubSeq(t, 1, AcceptRun(t, Digits \cup {"_"}))]

\* fmt.Sscanf(value, "%d", &intVal) with intVal int64: leading spaces are
\* skipped, a sign is accepted, the digits are scanned, the rest of the
\* text is not looked at
SscanfInt(value) ==
    LET t == Drop(value, AcceptRun(value, Spaces))
        signed == t # <<>> /\ Head(t) \in Signs
        num == scanNumber(IF signed THEN Tail(t) ELSE t)
        u == ParseUint(num.tok)
    IN  IF t = <<>> \/ ~num.ok \/ ~u.ok THEN [ok |-> FALSE, n |-> 0]
        ELSE [ok |-> TRUE, n |-> IF signed /\ Head(t) = "-" THEN 0 - u.n ELSE u.n]

\* fmt.Sscanf(value, "%d", &uintVal) with uintVal uint64: no sign is accepted
SscanfUint(value) ==
    LET t == Drop(value, AcceptRun(value, Spaces))
        num == scanNumber(t)
        u == ParseUint(num.tok)
    IN  IF t = <<>> \/ ~num.ok \/ ~u.ok THEN [ok |-> FALSE, n |-> 0]
        ELSE [ok |-> TRUE, n |-> u.n]

\* fmt.Sscanf(value, "%f", &floatVal): sign, digits, a period and digits
\* (the texts of the model carry no exponent, hexadecimal, NaN or Inf);
\* the float is kept as its sign, integer digits and fraction digits
SscanfFloat(value) ==
    LET t == Drop(value, AcceptRun(value, Spaces))
        signed == t # <<>> /\ Head(t) \in Signs
        t1 == IF signed THEN Tail(t) ELSE t
        ni == AcceptRun(t1, Digits \cup {"_"})
        t2 == Drop(t1, ni)
        dotted == t2 # <<>> /\ Head(t2) \in Period
        nf == IF dotted THEN AcceptRun(Tail(t2), Digits \cup {"_"}) ELSE 0
        ipart == SubSeq(t1, 1, ni)
        frac == IF dotted THEN SubSeq(Tail(t2), 1, nf) ELSE <<>>
        wellFormed == /\ ni + nf > 0
                      /\ \A i \in 1..Len(ipart) : ipart[i] \in Digits
                      /\ \A i \in 1..Len(frac) : frac[i] \in Digits
    IN  IF t = <<>> \/ ~wellFormed THEN [ok |-> FALSE, n |-> <<>>]
        ELSE [ok |-> TRUE,
              n |-> <<signed /\ Head(t) = "-", DecimalValue(ipart), frac>>]

\* reflect.Value.SetInt / SetUint store the value converted to the field's
\* width; the texts of the model stay below 2^31, so only the 8 and 16 bit
\* kinds can wrap
Bits(kind) ==
    CASE kind \in {"int8", "uint8"} -> 8
      [] kind \in {"int16", "uint16"} -> 16
      [] OTHER -> 0

SetIntValue(kind, n) ==
    IF Bits(kind) = 0 THEN n
    ELSE LET m == 2 ^ Bits(kind)
             r == n % m
         IN  IF r >= m \div 2 THEN r - m ELSE r

SetUintValue(kind, n) == IF Bits(kind) = 0 THEN n ELSE n % (2 ^ Bits(kind))

-----------------------------------------------------------------------------
(* Field setters *)

\* (mutant) a kind without a case gets no setter at all
createFieldSetterNoDefault(kind) ==
    [fn |-> CASE kind = "string" -> "SetString"
              [] kind \in IntKinds -> "SetInt"
              [] kind \in UintKinds -> "SetUint"
              [] kind = "bool" -> "SetBool"
              [] kind \in FloatKinds -> "SetFloat"
              [] OTHER -> "nil",
     kind |-> kind]

\* func createFieldSetter(kind reflect.Kind) func(reflect.Value, string) error
\* The setter is the closure chosen by the switch, with the kind it captured.
createFieldSetter(kind) ==
    [fn |-> CASE kind = "string" -> "SetString"
              [] kind \in IntKinds -> "SetInt"
              [] kind \in UintKinds -> "SetUint"
              [] kind = "bool" -> "SetBool"
              [] kind \in FloatKinds -> "SetFloat"
              [] OTHER -> "unsupported",
     kind |-> kind]

NilSetter == [fn |-> "nil", kind |-> ""]

SetterSet(v) == [status |-> "set", val |-> v, err |-> <<>>]
SetterError(reason) == [status |-> "error", val |-> 0, err |-> reason]
SetterPanic == [status |-> "panic", val |-> 0, err |-> <<>>]

\* setter(fieldValue, value) where fieldValue is a reflect.Value of kind
\* fieldKind: reflect's Set* methods panic on a Value of another kind
CallSetter(setter, fieldKind, value) ==
    CASE setter.fn = "SetString" ->
            IF fieldKind = "string" THEN SetterSet(value) ELSE SetterPanic
      [] setter.fn = "SetInt" ->
            LET s == SscanfInt(value)
            IN  IF ~s.ok THEN SetterError(<<"invalid integer value">>)
                ELSE IF fieldKind \in IntKinds
                     THEN SetterSet(SetIntValue(fieldKind, s.n))
                     ELSE SetterPanic
      [] setter.fn = "SetUint" ->
            LET s == SscanfUint(value)
            IN  IF ~s.ok THEN SetterError(<<"invalid unsigned integer value">>)
                ELSE IF fieldKind \in UintKinds
                     THEN SetterSet(SetUintValue(fieldKind, s.n))
                     ELSE SetterPanic
      [] setter.fn = "SetBool" ->
            IF fieldKind = "bool"
            THEN SetterSet(value = <<"t", "r", "u", "e">> \/ value = <<"1">>)
            ELSE SetterPanic
      [] setter.fn = "SetFloat" ->
            LET s == SscanfFloat(value)
            IN  IF ~s.ok THEN SetterError(<<"invalid float value">>)
                ELSE IF fieldKind \in FloatKinds THEN SetterSet(s.n)
                     ELSE SetterPanic
      [] setter.fn = "unsupported" ->
            SetterError(<<"unsupported field type: ", setter.kind>>)
      [] OTHER -> SetterPanic
-----------------------------------------------------------------------------
(* The parse plan, compiled once per endpoint *)

\* jsonTag := nestedField.Tag.Get("json"); if jsonTag == "" the field name
SourceName(f) == IF f.json = "" THEN f.name ELSE f.json

\* the fieldParser appended by parseNestedStruct for nested field j
NestedFieldParser(f, parentIndex, j, sourceType) ==
    LET isSlice == f.kind = "slice"
        fieldKind == IF isSlice THEN f.elem ELSE f.kind
    IN  [fieldIndex |-> parentIndex,
         nestedFieldIndex |-> j,
         isNested |-> TRUE,
         fieldType |-> [kind |-> f.kind, elem |-> f.elem],
         fieldKind |-> fieldKind,
         sourceType |-> sourceType,
         sourceName |-> SourceName(f),
         setter |-> createFieldSetter(fieldKind),
         isSlice |-> isSlice,
         isFileField |-> FALSE]

\* the fieldParser appended by parseNestedStructForForm for nested field j
FormFieldParser(f, parentIndex, j) ==
    [fieldIndex |-> parentIndex,
     nestedFieldIndex |-> j,
     isNested |-> TRUE,
     fieldType |-> [kind |-> f.kind, elem |-> f.elem],
     fieldKind |-> f.kind,
     sourceType |-> "form",
     sourceName |-> SourceName(f),
     setter |-> NilSetter,
     isSlice |-> FALSE,
     isFileField |-> f.fileUpload]

\* func parseNestedStruct(parser, structType, parentIndex, sourceType),
\* from nested field j on: the fieldParsers it appends
RECURSIVE parseNestedStruct(_, _, _, _)
parseNestedStruct(structType, parentIndex, sourceType, j) ==
    IF j > Len(structType.fields) THEN <<>>
    ELSE (IF structType.fields[j].exported
          THEN <<NestedFieldParser(structType.fields[j], parentIndex, j, sourceType)>>
          ELSE <<>>)
         \o parseNestedStruct(structType, parentIndex, sourceType, j + 1)

\* func parseNestedStructForForm(parser, structType, parentIndex)
RECURSIVE parseNestedStructForForm(_, _, _)
parseNestedStructForForm(structType, parentIndex, j) ==
    IF j > Len(structType.fields) THEN <<>>
    ELSE (IF structType.fields[j].exported
          THEN <<FormFieldParser(structType.fields[j], parentIndex, j)>>
          ELSE <<>>)
         \o parseNestedStructForForm(structType, parentIndex, j + 1)

\* the loop of buildRequestParser over the top-level fields, from field i on
RECURSIVE TopLevelFieldParsers(_, _)
TopLevelFieldParsers(reqType, i) ==
    IF i > Len(reqType.fields) THEN <<>>
    ELSE LET field == reqType.fields[i]
             own == IF ~field.exported \/ field.kind # "struct" THEN <<>>
                    ELSE CASE field.name = "Route" -> parseNestedStruct(field, i, "route", 1)
                           [] field.name = "Header" -> parseNestedStruct(field, i, "header", 1)
                           [] field.name = "Query" -> parseNestedStruct(field, i, "query", 1)
                           [] field.name = "Form" -> parseNestedStructForForm(field, i, 1)
                           [] OTHER -> <<>>
         IN  own \o TopLevelFieldParsers(reqType, i + 1)

IsBodyField(field) ==
    field.exported /\ field.kind = "struct" /\ field.name = "Body"

\* func buildRequestParser(reqType reflect.Type) *requestParser
buildRequestParser(reqType) ==
    LET bodies == {i \in 1..Len(reqType.fields) : IsBodyField(reqType.fields[i])}
    IN  [requestType |-> reqType,
         fieldParsers |-> TopLevelFieldParsers(reqType, 1),
         hasBodyField |-> bodies # {},
         bodyFieldIdx |-> IF bodies = {} THEN 0
                          ELSE CHOOSE i \in bodies : \A k \in bodies : k <= i]
-----------------------------------------------------------------------------
(* Requests and request values *)

\* the part of an *http.Request the executor reads: route values, headers
\* and query values by name, the body, and the form
MapGet(m, name) == IF name \in DOMAIN m THEN m[name] ELSE <<>>

PathValue(r, name) == MapGet(r.route, name)
HeaderGet(r, name) == MapGet(r.header, name)
\* r.URL.Query()[name]: every value of the key, in request order
QueryValues(r, name) == MapGet(r.query, name)
\* r.URL.Query().Get(name): the first value of the key, or ""
QueryGet(r, name) ==
    IF QueryValues(r, name) = <<>> THEN <<>> ELSE QueryValues(r, name)[1]

\* var req Req: the zero value of a field
ZeroFileField == [Filename |-> "", Size |-> 0, Content |-> "nil"]

RECURSIVE ZeroLeaf(_)
ZeroLeaf(f) ==
    CASE f.kind \in IntKinds \cup UintKinds -> 0
      [] f.kind = "bool" -> FALSE
      [] f.fileUpload -> ZeroFileField
      [] f.kind = "struct" -> [j \in 1..Len(f.fields) |-> ZeroLeaf(f.fields[j])]
      [] OTHER -> <<>>

ZeroValue(reqType) ==
    [i \in 1..Len(reqType.fields) |->
        IF reqType.fields[i].kind = "struct" /\ ~reqType.fields[i].fileUpload
        THEN [j \in 1..Len(reqType.fields[i].fields) |->
                 ZeroLeaf(reqType.fields[i].fields[j])]
        ELSE ZeroLeaf(reqType.fields[i])]

-----------------------------------------------------------------------------
(* The parse executor *)

\* (mutant) the converter's error is returned as it is
BindingErrorBare(fp, reason) == reason

\* fmt.Errorf("%s '%s': %w", fp.sourceType, fp.sourceName, err)
BindingError(fp, reason) == <<fp.sourceType, " '", fp.sourceName, "': ">> \o reason

\* func (f *Framework) parseFileField(r, fieldValue, formName) error
parseFileField(r, formName) ==
    IF ~r.form.multipart
    THEN [status |-> "error", val |-> ZeroFileField,
          err |-> <<"failed to parse multipart form: ", "request Content-Type isn't multipart/form-data">>]
    ELSE IF formName \notin DOMAIN r.form.files
    THEN [status |-> "missing", val |-> ZeroFileField, err |-> <<>>]
    ELSE [status |-> "set",
          val |-> [Filename |-> r.form.files[formName].Filename,
                   Size |-> r.form.files[formName].Size,
                   Content |-> "open"],
          err |-> <<>>]

\* the loop of setSliceField over values, from element i on (i counts from 1,
\* the message counts from 0)
RECURSIVE SliceElements(_, _, _, _)
SliceElements(elemKind, values, setter, i) ==
    IF i > Len(values) THEN [status |-> "set", val |-> <<>>, err |-> <<>>]
    ELSE LET s == CallSetter(setter, elemKind, values[i])
         IN  IF s.status = "panic" THEN [status |-> "panic", val |-> <<>>, err |-> <<>>]
             ELSE IF s.status = "error"
             THEN [status |-> "error", val |-> <<>>,
                   err |-> <<"failed to parse element ", i - 1, ": ">> \o s.err]
             ELSE LET rest == SliceElements(elemKind, values, setter, i + 1)
                  IN  IF rest.status = "set"
                      THEN [rest EXCEPT !.val = <<s.val>> \o @]
                      ELSE rest

\* (mutant) only the first value of the key is converted
setSliceFieldFirstOnly(fieldType, values, setter) ==
    SliceElements(fieldType.elem, SubSeq(values, 1, 1), setter, 1)

\* func (f *Framework) setSliceField(fieldValue, values, setter) error
setSliceField(fieldType, values, setter) ==
    SliceElements(fieldType.elem, values, setter, 1)

\* (mutant) a form binding reads the form value of its name
ScalarValueWithForm(r, fp) ==
    CASE fp.sourceType = "header" -> HeaderGet(r, fp.sourceName)
      [] fp.sourceType = "route" -> PathValue(r, fp.sourceName)
      [] fp.sourceType = "query" -> QueryGet(r, fp.sourceName)
      [] fp.sourceType = "form" -> MapGet(r.form.values, fp.sourceName)
      [] OTHER -> <<>>

\* the value of a present scalar binding
ScalarValue(r, fp) ==
    CASE fp.sourceType = "header" -> HeaderGet(r, fp.sourceName)
      [] fp.sourceType = "route" -> PathValue(r, fp.sourceName)
      [] fp.sourceType = "query" -> QueryGet(r, fp.sourceName)
      [] OTHER -> <<>>

\* one turn of the loop of parseWithPlan: binding i applied to the request
\* value st.value; status "next" goes on to the following binding
ApplyFieldParser(r, fp, i, st) ==
    LET event == <<"bind", i>>
        stopped(status, err) ==
            [status |-> status, err |-> err, value |-> st.value,
             trace |-> Append(st.trace, event)]
        skipped == [status |-> "next", err |-> <<>>, value |-> st.value,
                    trace |-> st.trace]
        assigned(v) ==
            [status |-> "next", err |-> <<>>,
             value |-> [st.value EXCEPT ![fp.fieldIndex][fp.nestedFieldIndex] = v],
             trace |-> Append(st.trace, event)]
        settled(s) ==
            CASE s.status = "panic" -> stopped("panic", <<>>)
              [] s.status = "error" -> stopped("error", BindingError(fp, s.err))
              [] OTHER -> assigned(s.val)
    IN  IF fp.sourceType = "form" /\ fp.isFileField THEN
            LET f == parseFileField(r, fp.sourceName)
            IN  CASE f.status = "error" ->
                        stopped("error", <<"form '", fp.sourceName, "': ">> \o f.err)
                  [] f.status = "missing" ->
                        [skipped EXCEPT !.trace = Append(@, event)]
                  [] OTHER -> assigned(f.val)
        ELSE IF fp.isSlice /\ fp.sourceType = "query" THEN
            IF Len(QueryValues(r, fp.sourceName)) = 0 THEN skipped
            ELSE settled(setSliceField(fp.fieldType, QueryValues(r, fp.sourceName),
                                       fp.setter))
        ELSE
            IF ScalarValue(r, fp) = <<>> THEN skipped
            ELSE settled(CallSetter(fp.setter, fp.fieldType.kind, ScalarValue(r, fp)))

\* the loop of parseWithPlan over parser.fieldParsers, from binding i on;
\* st is the request value so far and the trace of what has been applied
RECURSIVE ApplyFieldParsers(_, _, _, _)
ApplyFieldParsers(r, parser, i, st) ==
    IF i > Len(parser.fieldParsers) \/ st.status # "next"
    THEN [status |-> IF st.status = "next" THEN "ok" ELSE st.status,
          err |-> st.err, fields |-> {}, value |-> st.value, trace |-> st.trace]
    ELSE ApplyFieldParsers(r, parser, i + 1,
                           ApplyFieldParser(r, parser.fieldParsers[i], i, st))
-----------------------------------------------------------------------------
(* The body *)

\* the name encoding/json gives a struct field
JSONName(f) == IF f.json = "" THEN f.name ELSE f.json

\* json.Decoder.Decode of one object member into the struct under decoding
DecodeMember(bodyType, member, acc) ==
    LET key == member[1]
        jv == member[2]
        js == {j \in 1..Len(bodyType.fields) :
                  bodyType.fields[j].exported /\ JSONName(bodyType.fields[j]) = key}
        j == CHOOSE k \in js : TRUE
        f == bodyType.fields[j]
        fits == \/ jv.t = "string" /\ f.kind = "string"
                \/ jv.t = "number" /\ f.kind \in IntKinds
                \/ jv.t = "number" /\ f.kind \in UintKinds /\ jv.v >= 0
                \/ jv.t = "bool" /\ f.kind = "bool"
    IN  IF js = {}
        THEN [val |-> acc.val,
              err |-> IF acc.err = <<>> THEN <<"json: unknown field ", key>> ELSE acc.err]
        ELSE IF ~fits
        THEN [val |-> acc.val,
              err |-> IF acc.err = <<>>
                      THEN <<"json: cannot unmarshal ", jv.t, " into Go struct field ", f.name>>
                      ELSE acc.err]
        ELSE [val |-> [acc.val EXCEPT ![j] = jv.v], err |-> acc.err]

\* the members of the object in document order: the decoder saves the first
\* unknown-field or type error and goes on
RECURSIVE DecodeMembers(_, _, _, _)
DecodeMembers(bodyType, members, k, acc) ==
    IF k > Len(members) THEN acc
    ELSE DecodeMembers(bodyType, members, k + 1,
                       DecodeMember(bodyType, members[k], acc))

\* func (f *Framework) parseBody(r, fieldValue) error
\* (r.Body of a server request is never nil; the field is settable;
\* decoder.Decode reads the first JSON value of the payload and leaves what
\* follows it, r.body.rest, unread)
parseBody(r, bodyType) ==
    LET zero == [j \in 1..Len(bodyType.fields) |-> ZeroLeaf(bodyType.fields[j])]
        d == DecodeMembers(bodyType, r.body.members, 1, [val |-> zero, err |-> <<>>])
    IN  CASE r.body.kind = "empty" ->
                [status |-> "error", val |-> zero, err |-> <<"invalid JSON: ", "EOF">>]
          [] r.body.kind = "malformed" ->
                [status |-> "error", val |-> zero,
                 err |-> <<"invalid JSON: ", "invalid character">>]
          [] OTHER ->
                IF d.err # <<>>
                THEN [status |-> "error", val |-> zero, err |-> <<"invalid JSON: ">> \o d.err]
                ELSE [status |-> "set", val |-> d.val, err |-> <<>>]

-----------------------------------------------------------------------------
(* Validation: validator.New() of New and f.validator.Struct of              *)
(* parseWithPlan.  The validator is built without options: no tag-name      *)
(* function is registered, so a field error carries the Go field name, and  *)
(* the rules of a field whose kind is a (non-pointer) struct are not run.   *)

\* the "required" rule: the field differs from its zero value
HasValue(f, v) ==
    CASE f.kind \in IntKinds \cup UintKinds -> v # 0
      [] f.kind = "bool" -> v
      [] OTHER -> v # <<>>

\* the "min" rule: length of a string or slice, value of a number
MinHolds(f, v, n) ==
    IF f.kind \in IntKinds \cup UintKinds THEN v >= n ELSE Len(v) >= n

RuleHolds(f, rule, v) ==
    CASE rule.tag = "required" -> HasValue(f, v)
      [] rule.tag = "min" -> MinHolds(f, v, rule.param)
      [] OTHER -> TRUE

\* the rules of one field run in order and stop at the first that fails
FailedRules(f, v) ==
    IF f.kind = "struct" THEN <<>>
    ELSE LET failing == {k \in 1..Len(f.validate) : ~RuleHolds(f, f.validate[k], v)}
         IN  IF failing = {} THEN <<>>
             ELSE <<f.validate[CHOOSE k \in failing : \A m \in failing : k <= m]>>

\* the FieldError of a failed rule: its struct namespace, Field() and Tag()
FieldError(path, f, rule) ==
    [namespace |-> path, field |-> f.name, tag |-> rule.tag]

FieldErrors(path, f, v) ==
    [k \in 1..Len(FailedRules(f, v)) |-> FieldError(path, f, FailedRules(f, v)[k])]

\* the fields of a struct in order; the validator enters a field that is
\* itself a struct
RECURSIVE NestedErrors(_, _, _, _)
NestedErrors(path, structType, v, j) ==
    IF j > Len(structType.fields) THEN <<>>
    ELSE (IF ~structType.fields[j].exported THEN <<>>
          ELSE IF structType.fields[j].kind = "struct"
                  /\ ~structType.fields[j].fileUpload
          THEN NestedErrors(Append(path, structType.fields[j].name),
                            structType.fields[j], v[j], 1)
          ELSE FieldErrors(Append(path, structType.fields[j].name),
                           structType.fields[j], v[j]))
         \o NestedErrors(path, structType, v, j + 1)

\* validator.Struct(req): the exported fields in order, struct fields entered
RECURSIVE ValidatorStruct(_, _, _)
ValidatorStruct(reqType, value, i) ==
    IF i > Len(reqType.fields) THEN <<>>
    ELSE LET f == reqType.fields[i]
             own == IF ~f.exported THEN <<>>
                    ELSE IF f.kind = "struct" /\ ~f.fileUpload
                    THEN NestedErrors(<<reqType.name, f.name>>, f, value[i], 1)
                    ELSE FieldErrors(<<reqType.name, f.name>>, f, value[i])
         IN  own \o ValidatorStruct(reqType, value, i + 1)

\* func splitFieldPath(namespace string) []string: the dot-separated parts
\* of the namespace, empty parts dropped
NonEmptyName(part) == part # ""
splitFieldPath(namespace) == SelectSeq(namespace, NonEmptyName)

\* fieldTagMap of formatValidationError, keyed by <<parent, nested>>
FieldTagMap(parser) ==
    LET t == parser.requestType
        key(fp) == <<t.fields[fp.fieldIndex].name,
                     t.fields[fp.fieldIndex].fields[fp.nestedFieldIndex].name>>
        fps == {k \in 1..Len(parser.fieldParsers) : parser.fieldParsers[k].isNested}
        \* a later binding with the same path overwrites an earlier one
        last(p) == CHOOSE k \in fps :
                      /\ key(parser.fieldParsers[k]) = p
                      /\ \A m \in fps : key(parser.fieldParsers[m]) = p => m <= k
    IN  [p \in {key(parser.fieldParsers[k]) : k \in fps} |->
            [tagName |-> parser.fieldParsers[last(p)].sourceName,
             sourceType |-> parser.fieldParsers[last(p)].sourceType]]

\* the fieldKey under which formatValidationError files the field error e
FieldKey(e, parser) ==
    LET parts == splitFieldPath(e.namespace)
        structPath == <<parts[2], parts[3]>>
        tags == FieldTagMap(parser)
        bodyFieldName == parser.requestType.fields[parser.bodyFieldIdx].name
    IN  IF Len(parts) >= 3
        THEN IF parser.hasBodyField /\ parts[2] = bodyFieldName
             THEN [name |-> e.field, sourceType |-> "body"]
             ELSE IF structPath \in DOMAIN tags
             THEN [name |-> tags[structPath].tagName,
                   sourceType |-> tags[structPath].sourceType]
             ELSE [name |-> e.field, sourceType |-> ""]
        ELSE [name |-> e.field, sourceType |-> ""]

ErrorMsg(e) == <<"failed validation: ", e.tag>>

\* the messages filed under key, in the order of the field errors
RECURSIVE ErrorsOf(_, _, _, _)
ErrorsOf(errs, parser, key, k) ==
    IF k > Len(errs) THEN <<>>
    ELSE (IF FieldKey(errs[k], parser) = key THEN <<ErrorMsg(errs[k])>> ELSE <<>>)
         \o ErrorsOf(errs, parser, key, k + 1)

\* (mutant) a field error whose path resolves to no binding is left out
formatValidationErrorResolved(errs, parser) ==
    {[Field |-> key.name, SourceType |-> key.sourceType,
      Errors |-> ErrorsOf(errs, parser, key, 1)] :
        key \in {FieldKey(errs[k], parser) : k \in 1..Len(errs)}
                \ {[name |-> errs[k].field, sourceType |-> ""] : k \in 1..Len(errs)}}

\* func (f *Framework) formatValidationError(err, parser) []ValidationError
\* The slice is filled by ranging over a map: its order is not fixed, so
\* the list is kept as the set of its records.
formatValidationError(errs, parser) ==
    {[Field |-> key.name, SourceType |-> key.sourceType,
      Errors |-> ErrorsOf(errs, parser, key, 1)] :
        key \in {FieldKey(errs[k], parser) : k \in 1..Len(errs)}}

\* parseWithPlan, lines 593-599: the body is decoded once every binding has
\* been applied
DecodeBody(r, parser, bound, b) ==
    IF bound.status # "ok" \/ ~parser.hasBodyField THEN bound
    ELSE IF b.status = "error"
    THEN [bound EXCEPT !.status = "error",
                       !.err = <<"body: ">> \o b.err,
                       !.trace = Append(@, <<"body">>)]
    ELSE [bound EXCEPT !.value[parser.bodyFieldIdx] = b.val,
                       !.trace = Append(@, <<"body">>)]

\* parseWithPlan, lines 601-608: the whole request value is validated
ValidateRequest(parser, decoded, errs) ==
    IF decoded.status # "ok" THEN decoded
    ELSE IF errs # <<>>
    THEN [decoded EXCEPT !.status = "validation",
                         !.err = <<"validation failed">>,
                         !.fields = formatValidationError(errs, parser),
                         !.trace = Append(@, <<"validate">>)]
    ELSE [decoded EXCEPT !.trace = Append(@, <<"validate">>)]

ValidateDecoded(parser, decoded) ==
    ValidateRequest(parser, decoded,
                    ValidatorStruct(parser.requestType, decoded.value, 1))

\* func (f *Framework) parseWithPlan(r, reqValue, parser) error
parseWithPlan(r, parser) ==
    ValidateDecoded(parser,
        DecodeBody(r, parser,
            ApplyFieldParsers(r, parser, 1,
                              [status |-> "next", err |-> <<>>,
                               value |-> ZeroValue(parser.requestType),
                               trace |-> <<>>]),
            parseBody(r, parser.requestType.fields[
                            IF parser.hasBodyField THEN parser.bodyFieldIdx ELSE 1])))
-----------------------------------------------------------------------------
(* Responses *)

StatusOK == 200
StatusBadRequest == 400
StatusInternalServerError == 500
StatusNoContent == 204

\* a response type is the list of its type name and type arguments;
\* type StatusResponse[Resp any] struct { Code int; Body Resp }
StatusResponseOf(resp) == <<"StatusResponse">> \o resp

ItemType == <<"Item">>
AnyType == <<"any">>
PageType == <<"Page">>
\* type DeleteUserResponse struct{} of example/main.go
DeleteUserResponseType == <<"DeleteUserResponse">>

\* the types whose method set holds WriteResponse(w http.ResponseWriter)
ResponderTypes == {PageType}

\* json.NewEncoder(w).Encode(v): a struct becomes an object of its fields
\* under their json names, StatusResponse (no json tags) under Code and Body
RECURSIVE JSONEncode(_)
JSONEncode(v) ==
    IF v.type[1] = "StatusResponse"
    THEN <<"{", <<"Code", v.Code>>, <<"Body", JSONEncode(v.Body)>>, "}">>
    ELSE IF v.type = ItemType
    THEN <<"{", <<"id", v.ID>>, <<"name", v.Name>>, "}">>
    ELSE <<"{", "}">>

\* func (f *Framework) writeError(w, statusCode, message, details)
writeError(statusCode, message) ==
    [status |-> statusCode, contentType |-> "application/json",
     body |-> <<"{", <<"error", message>>, "}">>]

\* func (f *Framework) writeValidationError(w, statusCode, validationErrors)
writeValidationError(statusCode, validationErrors) ==
    [status |-> statusCode, contentType |-> "application/json",
     body |-> <<"{", <<"error", <<"validation failed">>>>,
                <<"fields", validationErrors>>, "}">>]

\* (mutant) the Responder capability is not looked at
writeResponseNoResponder(Resp, response) ==
    IF response.type = StatusResponseOf(Resp)
    THEN [status |-> response.Code, contentType |-> "application/json",
          body |-> JSONEncode(response.Body)]
    ELSE [status |-> StatusOK, contentType |-> "application/json",
          body |-> JSONEncode(response)]

\* func writeResponse[Resp any](w http.ResponseWriter, response Resp)
\* response.type is the dynamic type of any(response); the second type
\* assertion compares it with StatusResponse instantiated at Resp itself
writeResponse(Resp, response) ==
    IF response.type \in ResponderTypes
    THEN response.WriteResponse
    ELSE IF response.type = StatusResponseOf(Resp)
    THEN [status |-> response.Code, contentType |-> "application/json",
          body |-> JSONEncode(response.Body)]
    ELSE [status |-> StatusOK, contentType |-> "application/json",
          body |-> JSONEncode(response)]

-----------------------------------------------------------------------------
(* Endpoints of the parse executor: handlers and the values they return *)

Item == [type |-> ItemType, ID |-> 1, Name |-> "ann"]

Page ==
    [type |-> PageType,
     WriteResponse |-> [status |-> StatusOK, contentType |-> "text/html",
                        body |-> <<"<html>">>]]

\* a Responder that writes a redirect of its own
Redirect ==
    [type |-> PageType,
     WriteResponse |-> [status |-> 302, contentType |-> "text/html",
                        body |-> <<"<a>">>]]

\* DeleteUserResponse{}: the empty response of DeleteUser
DeleteUserResponse == [type |-> DeleteUserResponseType]

CreatedCodes == {201, 404}

StatusResponses(resp) ==
    {[type |-> StatusResponseOf(resp), Code |-> c, Body |-> Item] : c \in CreatedCodes}

\* the values a handler of response type Resp can return: values of type
\* Resp, and for an interface type values of any type
Responses(Resp) ==
    CASE Resp = ItemType -> {Item}
      [] Resp = StatusResponseOf(ItemType) -> StatusResponses(ItemType)
      [] Resp = PageType -> {Page, Redirect}
      [] Resp = DeleteUserResponseType -> {DeleteUserResponse}
      [] Resp = AnyType ->
            {Item, Page, Redirect, DeleteUserResponse}
            \cup StatusResponses(ItemType) \cup StatusResponses(AnyType)
      [] OTHER -> {}

NoValue == [type |-> <<"nil">>]

HandlerErrors == {"item not found"}

\* what handler(r.Context(), req) returns: (response, nil) or (zero, err)
HandlerResults(Resp) ==
    {[err |-> "", value |-> v] : v \in Responses(Resp)}
    \cup {[err |-> m, value |-> NoValue] : m \in HandlerErrors}

\* CreateEndpoint(method, path, handler): the plan is built here, once
NewEndpoint(reqType, Resp) ==
    [Req |-> reqType, Resp |-> Resp, parser |-> buildRequestParser(reqType)]

EndpointLibrary ==
    {NewEndpoint(ItemsRequest, ItemType),
     NewEndpoint(MemberRequest, StatusResponseOf(ItemType)),
     NewEndpoint(UploadAvatarRequest, AnyType),
     NewEndpoint(TaggedRequest, PageType),
     NewEndpoint(ItemsRequest, DeleteUserResponseType),
     NewEndpoint(TraceRequest, ItemType),
     NewEndpoint(SubmitRequest, ItemType),
     NewEndpoint(PatchUserRequest, ItemType),
     NewEndpoint(TransferRequest, ItemType)}
-----------------------------------------------------------------------------
(* The calls of the registry and router specifications *)

\* the calls that compose routes: groups, middleware, endpoints, registration
ComposeNext ==
    \/ \E p \in Prefixes : FrameworkGroup(p)
    \/ \E g \in 1..Len(groups), n \in UseArgCounts : GroupUse(g, n)
    \/ \E g \in 1..Len(groups), p \in Prefixes : GroupGroup(g, p)
    \/ \E m \in Methods, p \in RelPaths :
          CreateEndpoint(m, p, ItemsRequest, ItemType)
    \/ \E e \in 1..Len(specs), n \in UseArgCounts : EndpointUse(e, n)
    \/ \E r \in Routers, e \in 1..Len(specs) : RegisterEndpoint(r, e)
    \/ \E p \in DOMAIN mux : ServeHTTP(p)

\* the calls that document endpoints and fill the registry
RegistryNext ==
    \/ \E p \in Prefixes : FrameworkGroup(p)
    \/ \E m \in Methods, p \in RelPaths :
          CreateEndpoint(m, p, ItemsRequest, ItemType)
    \/ \E e \in 1..Len(specs), s \in Summaries : SetSummary(e, s)
    \/ \E e \in 1..Len(specs), d \in Descriptions : SetDescription(e, d)
    \/ \E e \in 1..Len(specs), t \in TagLists : SetTags(e, t)
    \/ \E e \in 1..Len(specs), n \in UseArgCounts : EndpointUse(e, n)
    \/ \E r \in Routers, e \in 1..Len(specs) : RegisterEndpoint(r, e)

-----------------------------------------------------------------------------
(* The schema generator of package openapi: types to schemas *)

\* field.Tag.Get(key): the value of the struct tag key, "" when absent
TagGet(field, key) ==
    IF field.source # <<>> /\ field.source[1] = key THEN field.source[2] ELSE ""

\* field.Tag.Lookup(key): whether the struct tag key is present
TagLookup(field, key) == field.source # <<>> /\ field.source[1] = key

\* strings.Contains(field.Tag.Get("validate"), "required"): of the rule names
\* of the model (required, min) only "required" holds the text
ContainsRequired(validate) ==
    \E k \in 1..Len(validate) : validate[k].tag = "required"

\* the reflect.Type of a kind that is not a struct
KindType(kind) ==
    [name |-> "", json |-> "", kind |-> kind, elem |-> "", exported |-> TRUE,
     validate |-> <<>>, fileUpload |-> FALSE, fields |-> <<>>, source |-> <<>>]

\* the reflect.Type of a struct with these fields
StructType(fields) == [KindType("struct") EXCEPT !.fields = fields]

Unexported(field) == [field EXCEPT !.exported = FALSE]

\* the reflect.Type of a response type: Item{ID, Name}, StatusResponse[Resp]
\* {Code int; Body Resp}, the interface type any, a page with an unexported
\* html field (SwaggerUIResponse), the empty struct
RECURSIVE ResponseTypeOf(_)
ResponseTypeOf(resp) ==
    CASE resp = ItemType ->
            StructType(<<Field("ID", "id", "int", "", <<>>),
                         Field("Name", "name", "string", "", <<>>)>>)
      [] resp = PageType ->
            StructType(<<Unexported(Field("html", "", "string", "", <<>>))>>)
      [] resp = DeleteUserResponseType -> StructType(<<>>)
      [] resp # <<>> /\ resp[1] = "StatusResponse" ->
            StructType(<<Field("Code", "", "int", "", <<>>),
                         [ResponseTypeOf(Tail(resp)) EXCEPT !.name = "Body"]>>)
      [] OTHER -> KindType("interface")

\* &Schema{...}: a nil pointer or slice is the empty list, a pointer to a
\* value the list of that value, a map a function on its keys
Schema(type, format) ==
    [Type |-> type, Format |-> format, Properties |-> <<>>, Required |-> <<>>,
     Items |-> <<>>, Minimum |-> <<>>, MinLength |-> <<>>]

\* func (f *OpenApi) reflectTypeToSchema(t reflect.Type) *Schema, for a
\* type that is not a slice
ScalarSchema(kind) ==
    CASE kind = "string" -> Schema("string", "")
      [] kind = "int64" -> Schema("integer", "int64")
      [] kind \in IntKinds -> Schema("integer", "int32")
      [] kind \in UintKinds -> [Schema("integer", "") EXCEPT !.Minimum = <<0>>]
      [] kind = "bool" -> Schema("boolean", "")
      [] kind = "float32" -> Schema("number", "float")
      [] kind = "float64" -> Schema("number", "double")
      [] kind = "struct" -> Schema("object", "")
      [] OTHER -> Schema("string", "")

RECURSIVE reflectTypeToSchema(_)
RECURSIVE structToSchemaInternal(_)

\* t.Elem() of a slice type
ElemType(t) == [KindType(t.elem) EXCEPT !.fields = t.fields]

\* func (f *OpenApi) reflectTypeToSchemaExpanded(t) *Schema
reflectTypeToSchemaExpanded(t) ==
    IF t.kind = "struct" THEN structToSchemaInternal(t) ELSE reflectTypeToSchema(t)

\* func (f *OpenApi) reflectTypeToSchema(t reflect.Type) *Schema: the
\* properties of a struct are not expanded, the items of a slice are
reflectTypeToSchema(t) ==
    IF t.kind = "slice"
    THEN [Schema("array", "") EXCEPT !.Items = <<reflectTypeToSchemaExpanded(ElemType(t))>>]
    ELSE ScalarSchema(t.kind)

\* func (f *OpenApi) applyValidationToSchema(schema, validateTag), rule by
\* rule: min sets minLength of a string and minimum of a number
RECURSIVE applyValidationToSchema(_, _, _)
applyValidationToSchema(schema, validate, k) ==
    IF k > Len(validate) THEN schema
    ELSE applyValidationToSchema(
            IF validate[k].tag # "min" THEN schema
            ELSE IF schema.Type = "string"
            THEN [schema EXCEPT !.MinLength = <<validate[k].param>>]
            ELSE IF schema.Type \in {"number", "integer"}
            THEN [schema EXCEPT !.Minimum = <<validate[k].param>>]
            ELSE schema,
            validate, k + 1)

\* fieldName: the json tag, the Go name without one
PropertyName(field) == IF field.json = "" THEN field.name ELSE field.json

\* the fields a struct schema describes: exported, json tag not "-"
Described(t) ==
    {i \in 1..Len(t.fields) : t.fields[i].exported /\ t.fields[i].json # "-"}

\* the last field that writes schema.Properties[name]
PropertyField(t, name) ==
    CHOOSE i \in Described(t) :
        /\ PropertyName(t.fields[i]) = name
        /\ \A j \in Described(t) : PropertyName(t.fields[j]) = name => j <= i

\* schema.Required: the names of the fields whose validate tag holds
\* "required", in field order
RECURSIVE RequiredNames(_, _)
RequiredNames(t, i) ==
    IF i > Len(t.fields) THEN <<>>
    ELSE (IF i \in Described(t) /\ ContainsRequired(t.fields[i].validate)
          THEN <<PropertyName(t.fields[i])>> ELSE <<>>)
         \o RequiredNames(t, i + 1)

\* func (f *OpenApi) structToSchema(t, schemas) *Schema: the properties are
\* not expanded
structToSchema(t) ==
    IF t.kind # "struct" THEN reflectTypeToSchema(t)
    ELSE [Schema("object", "") EXCEPT
            !.Properties =
                [name \in {PropertyName(t.fields[i]) : i \in Described(t)} |->
                    applyValidationToSchema(
                        reflectTypeToSchema(t.fields[PropertyField(t, name)]),
                        t.fields[PropertyField(t, name)].validate, 1)],
            !.Required = RequiredNames(t, 1)]

\* func (f *OpenApi) structToSchemaInternal(t) *Schema: struct-typed
\* properties are expanded
structToSchemaInternal(t) ==
    IF t.kind # "struct" THEN reflectTypeToSchema(t)
    ELSE [Schema("object", "") EXCEPT
            !.Properties =
                [name \in {PropertyName(t.fields[i]) : i \in Described(t)} |->
                    applyValidationToSchema(
                        structToSchemaInternal(t.fields[PropertyField(t, name)]),
                        t.fields[PropertyField(t, name)].validate, 1)],
            !.Required = RequiredNames(t, 1)]

\* func (f *OpenApi) getErrorSchema() *Schema
getErrorSchema ==
    [Schema("object", "") EXCEPT
        !.Properties =
            [name \in {"error", "details"} |->
                IF name = "error" THEN Schema("string", "")
                ELSE [Schema("object", "") EXCEPT
                        !.Properties = [n \in {"*"} |-> Schema("string", "")]]],
        !.Required = <<"error">>]
-----------------------------------------------------------------------------
(* The schema generator: operations and the document *)

\* the Parameter appended for a field with a header, route or query tag
\* (the types of the model carry no doc tag: Description is empty)
Parameter(name, in, required, schema) ==
    [Name |-> name, In |-> in, Description |-> "", Required |-> required,
     Schema |-> schema]

\* (mutant) a path parameter is required when its validate tag says so
FieldParametersByValidate(field) ==
    IF field.source = <<>> \/ field.source[1] \notin {"header", "route", "query"}
    THEN <<>>
    ELSE <<Parameter(field.source[2],
                     IF field.source[1] = "route" THEN "path" ELSE field.source[1],
                     ContainsRequired(field.validate),
                     reflectTypeToSchema(field))>>

\* the parameters one field of the request type adds to operation.Parameters:
\* a header parameter, a path parameter (always required), a query parameter
FieldParameters(field) ==
    (IF TagGet(field, "header") # ""
     THEN <<Parameter(TagGet(field, "header"), "header",
                      ContainsRequired(field.validate),
                      reflectTypeToSchema(field))>>
     ELSE <<>>)
    \o (IF TagGet(field, "route") # ""
        THEN <<Parameter(TagGet(field, "route"), "path", TRUE,
                         reflectTypeToSchema(field))>>
        ELSE <<>>)
    \o (IF TagGet(field, "query") # ""
        THEN <<Parameter(TagGet(field, "query"), "query",
                         ContainsRequired(field.validate),
                         reflectTypeToSchema(field))>>
        ELSE <<>>)

\* operation.Parameters after the loop over the fields i.. of reqType
RECURSIVE OperationParameters(_, _)
OperationParameters(reqType, i) ==
    IF i > Len(reqType.fields) THEN <<>>
    ELSE FieldParameters(reqType.fields[i]) \o OperationParameters(reqType, i + 1)

RequestBody(description, required, mediaType, schema) ==
    [Description |-> description, Required |-> required,
     Content |-> [m \in {mediaType} |-> schema]]

\* the fields with a form tag
FormFields(reqType) ==
    {i \in 1..Len(reqType.fields) : TagGet(reqType.fields[i], "form") # ""}

\* formFields[formTag]: binary for a FileUpload, else the field's schema
FormFieldSchema(field) ==
    IF field.fileUpload THEN Schema("string", "binary")
    ELSE reflectTypeToSchema(field)

\* formFieldsRequired, in field order
RECURSIVE FormFieldsRequired(_, _)
FormFieldsRequired(reqType, i) ==
    IF i > Len(reqType.fields) THEN <<>>
    ELSE (IF i \in FormFields(reqType)
             /\ ContainsRequired(reqType.fields[i].validate)
          THEN <<TagGet(reqType.fields[i], "form")>> ELSE <<>>)
         \o FormFieldsRequired(reqType, i + 1)

\* the multipart/form-data schema built from the form fields
FormSchema(reqType) ==
    [Schema("object", "") EXCEPT
        !.Properties =
            [name \in {TagGet(reqType.fields[i], "form") : i \in FormFields(reqType)} |->
                FormFieldSchema(reqType.fields[
                    CHOOSE i \in FormFields(reqType) :
                        /\ TagGet(reqType.fields[i], "form") = name
                        /\ \A j \in FormFields(reqType) :
                              TagGet(reqType.fields[j], "form") = name => j <= i])],
        !.Required = FormFieldsRequired(reqType, 1)]

\* the fields with a body tag
BodyFieldsTagged(reqType) ==
    {i \in 1..Len(reqType.fields) : TagLookup(reqType.fields[i], "body")}

\* operation.RequestBody: nil, the schema of the last field with a body tag,
\* or, when there are form fields, the multipart schema
OperationRequestBody(reqType) ==
    IF FormFields(reqType) # {}
    THEN <<RequestBody("Multipart form data",
                       FormFieldsRequired(reqType, 1) # <<>>,
                       "multipart/form-data", FormSchema(reqType))>>
    ELSE IF BodyFieldsTagged(reqType) = {} THEN <<>>
    ELSE LET field == reqType.fields[
                 CHOOSE i \in BodyFieldsTagged(reqType) :
                     \A j \in BodyFieldsTagged(reqType) : j <= i]
         IN  <<RequestBody("", ContainsRequired(field.validate),
                           "application/json", structToSchema(field))>>

OpenAPIResponse(description, schema) ==
    [Description |-> description,
     Content |-> [m \in {"application/json"} |-> schema]]

\* func (f *OpenApi) generateOperation(endpoint, schemas) *Operation
generateOperation(ep) ==
    [Summary |-> ep.Summary,
     Description |-> ep.Description,
     Tags |-> ep.Tags,
     Parameters |-> OperationParameters(ep.RequestType, 1),
     RequestBody |-> OperationRequestBody(ep.RequestType),
     Responses |->
        [code \in {"200", "400", "500"} |->
            CASE code = "200" ->
                    OpenAPIResponse("Successful response",
                        reflectTypeToSchemaExpanded(ResponseTypeOf(ep.ResponseType)))
              [] code = "400" ->
                    OpenAPIResponse("Bad request - validation error", getErrorSchema)
              [] OTHER ->
                    OpenAPIResponse("Internal server error", getErrorSchema)]]

\* PathItem{}: no operation under any method
PathItem == [Get |-> <<>>, Post |-> <<>>, Put |-> <<>>, Patch |-> <<>>, Delete |-> <<>>]

\* switch endpoint.Method { case "GET": pathItem.Get = operation ... }
SetOperation(pathItem, method, operation) ==
    CASE method = "GET" -> [pathItem EXCEPT !.Get = <<operation>>]
      [] method = "POST" -> [pathItem EXCEPT !.Post = <<operation>>]
      [] method = "PUT" -> [pathItem EXCEPT !.Put = <<operation>>]
      [] method = "PATCH" -> [pathItem EXCEPT !.Patch = <<operation>>]
      [] method = "DELETE" -> [pathItem EXCEPT !.Delete = <<operation>>]
      [] OTHER -> pathItem

\* endpoint.Path: the path the record was registered under
EndpointPath(ep) == ep.FullPath

\* the loop of GenerateOpenAPI over the endpoints eps[i..]: spec.Paths
RECURSIVE GeneratePaths(_, _, _, _)
GeneratePaths(ss, eps, i, paths) ==
    IF i > Len(eps) THEN paths
    ELSE GeneratePaths(ss, eps, i + 1,
            (EndpointPath(ss[eps[i]]) :>
                SetOperation(IF EndpointPath(ss[eps[i]]) \in DOMAIN paths
                             THEN paths[EndpointPath(ss[eps[i]])] ELSE PathItem,
                             ss[eps[i]].Method,
                             generateOperation(ss[eps[i]])))
            @@ paths)

\* (mutant) every endpoint record created, registered or not
GetEndpointsCreated == [i \in 1..Len(specs) |-> i]

\* func (f *Framework) GetEndpoints() []*EndpointSpec
GetEndpoints == endpoints

\* the *OpenAPISpec GenerateOpenAPI returns
OpenAPISpec(title, description, version) ==
    [OpenAPI |-> "3.0.0",
     Info |-> [Title |-> title, Description |-> description, Version |-> version],
     Paths |-> GeneratePaths(specs, GetEndpoints, 1, <<>>),
     Components |-> [Schemas |-> <<>>]]
-----------------------------------------------------------------------------
(* The registration helpers of package handler and the generation of the
   document *)

MaxGroups == 2
MaxEndpoints == 2
MaxDocuments == 2

SchemaPrefixes == {"/v1", "/api/"}

\* optFn func(EndpointOptions): the callback that documents the endpoint
\* through SetSummary, SetDescription and SetTags; it may call none of them
NoOptions == [Summary |-> "", Description |-> "", Tags |-> <<>>]
Documented == [Summary |-> "s1", Description |-> "d1", Tags |-> <<"t1">>]

\* the calls of the helpers a run makes: relative path, handler types, optFn
HelperCalls ==
    {[path |-> "/x", Req |-> ItemsRequest, Resp |-> StatusResponseOf(ItemType),
      optFn |-> Documented],
     [path |-> "/y", Req |-> PatchUserRequest, Resp |-> DeleteUserResponseType,
      optFn |-> NoOptions]}

\* hRoute := &EndpointBuilder{endpoint: framework.CreateEndpoint(method, path,
\* handler)}; optFn(hRoute); framework.RegisterEndpoint(r, hRoute.endpoint)
RegisterWith(method, r, call) ==
    /\ ~crashed
    /\ Called
    /\ LET created == Append(specs, EndpointSpec(method, call.path, call.Req,
                                                 call.Resp, planBuilt(planBuilds)))
           e == Len(created)
           reg == Registered([created EXCEPT
                                ![e].Summary = call.optFn.Summary,
                                ![e].Description = call.optFn.Description,
                                ![e].Tags = call.optFn.Tags],
                             r, e)
       IN /\ heap' = reg.heap
          /\ groups' = reg.groups
          /\ specs' = reg.specs
          /\ endpoints' = reg.endpoints
          /\ crashed' = reg.crashed
          /\ mux' = reg.mux
    /\ planBuilds' = planBuilt(planBuilds)
    /\ UNCHANGED <<lastRequest, schemaVars>>

\* func GET[Req, Resp](r, path, handler, optFn)
GET(r, call) == RegisterWith("GET", r, call)

\* func POST[Req, Resp](r, path, handler, optFn)
POST(r, call) == RegisterWith("POST", r, call)

\* func PUT[Req, Resp](r, path, handler, optFn)
PUT(r, call) == RegisterWith("PUT", r, call)

\* func PATCH[Req, Resp](r, path, handler, optFn): CreateEndpoint("PATH", ...)
PATCH(r, call) == RegisterWith("PATH", r, call)

\* func DELETE[Req, Resp](r, path, handler, optFn)
DELETE(r, call) == RegisterWith("DELETE", r, call)

\* what the registry shows: the records of f.endpoints, in order
RegistrySnapshot ==
    [i \in 1..Len(endpoints) |->
        [Method |-> specs[endpoints[i]].Method,
         RelativePath |-> specs[endpoints[i]].RelativePath,
         FullPath |-> specs[endpoints[i]].FullPath,
         Summary |-> specs[endpoints[i]].Summary,
         Description |-> specs[endpoints[i]].Description,
         Tags |-> specs[endpoints[i]].Tags,
         RequestType |-> specs[endpoints[i]].RequestType,
         ResponseType |-> specs[endpoints[i]].ResponseType,
         Middlewares |-> EndpointMws(endpoints[i]),
         AllMiddlewares |-> AllMws(endpoints[i])]]

\* func (f *OpenApi) GenerateOpenAPI(title, description, version) *OpenAPISpec
\* (registry is a history field: the registry the document was made from)
GenerateOpenAPI(title, description, version) ==
    /\ ~crashed
    /\ Len(generated) < MaxDocuments
    /\ generated' = Append(generated,
                           [registry |-> RegistrySnapshot,
                            spec |-> OpenAPISpec(title, description, version)])
    /\ UNCHANGED routerVars

SchemaNext ==
    \/ /\ Len(groups) < MaxGroups
       /\ \E p \in SchemaPrefixes : FrameworkGroup(p) /\ UNCHANGED schemaVars
    \/ /\ Len(groups) < MaxGroups
       /\ \E g \in 1..Len(groups), p \in SchemaPrefixes :
             GroupGroup(g, p) /\ UNCHANGED schemaVars
    \/ /\ Len(specs) < MaxEndpoints
       /\ CreateEndpoint("GET", "/x", ItemsRequest, ItemType)
       /\ UNCHANGED schemaVars
    \/ /\ Len(endpoints) < MaxEndpoints
       /\ \E r \in Routers, e \in 1..Len(specs) :
             RegisterEndpoint(r, e) /\ UNCHANGED schemaVars
    \/ /\ Len(specs) < MaxEndpoints
       /\ \E r \in Routers, call \in HelperCalls : GET(r, call)
    \/ /\ Len(specs) < MaxEndpoints
       /\ \E r \in Routers, call \in HelperCalls : POST(r, call)
    \/ /\ Len(specs) < MaxEndpoints
       /\ \E r \in Routers, call \in HelperCalls : PUT(r, call)
    \/ /\ Len(specs) < MaxEndpoints
       /\ \E r \in Routers, call \in HelperCalls : PATCH(r, call)
    \/ /\ Len(specs) < MaxEndpoints
       /\ \E r \in Routers, call \in HelperCalls : DELETE(r, call)
    \/ GenerateOpenAPI("t", "d", "v")
-----------------------------------------------------------------------------
(* The requests sent to an endpoint *)

MaxQueryValues == 2

Texts == {<<>>, <<"1", "2">>, <<"a", "b", "c">>, <<"1", "2", "a">>}
QueryTexts == {<<>>, <<"7">>, <<"8">>, <<"x">>}
QueryLists == UNION {[1..k -> QueryTexts] : k \in 0..MaxQueryValues}

JString(s) == [t |-> "string", v |-> s]
JNumber(n) == [t |-> "number", v |-> n]

NameMembers ==
    {<<>>} \cup {<< <<"name", JString(n)>> >> : n \in {<<"a", "b">>, <<"a", "b", "c">>}}
AgeMembers ==
    {<<>>, << <<"age", JString(<<"x">>)>> >>}
    \cup {<< <<"age", JNumber(a)>> >> : a \in {17, 18, 30}}
ExtraMembers == {<<>>, << <<"extra", JNumber(1)>> >>}

\* JSON objects, as the list of their members in document order
Documents ==
    {n \o a \o e : n \in NameMembers, a \in AgeMembers, e \in ExtraMembers}
    \cup {e \o a \o n : n \in NameMembers, a \in AgeMembers, e \in ExtraMembers}

\* what may follow the first JSON value of a payload: nothing, or more text
Trailers == {<<>>, <<"}">>}

\* a payload: no byte at all, text that is not the start of a JSON value, or
\* a JSON object followed by a trailer
EmptyBody == [kind |-> "empty", members |-> <<>>, rest |-> <<>>]
MalformedBody == [kind |-> "malformed", members |-> <<>>, rest |-> <<>>]
Bodies ==
    {EmptyBody, MalformedBody}
    \cup {[kind |-> "object", members |-> d, rest |-> t] :
            d \in Documents, t \in Trailers}

FileParts == {[Filename |-> "a.png", Size |-> 3]}
\* the text parts of a multipart form: r.MultipartForm.Value
FormTexts == {<<"h", "i">>}

NotMultipart == [multipart |-> FALSE, files |-> <<>>, values |-> <<>>]
Forms(names) ==
    {NotMultipart}
    \cup {[multipart |-> TRUE, files |-> fs, values |-> vs] :
            fs \in UNION {[K -> FileParts] : K \in SUBSET names},
            vs \in UNION {[K -> FormTexts] : K \in SUBSET names}}

SourceNames(parser, sourceType) ==
    {parser.fieldParsers[k].sourceName :
        k \in {m \in 1..Len(parser.fieldParsers) :
                  parser.fieldParsers[m].sourceType = sourceType}}

\* the requests whose route and header values are drawn from texts, whose
\* query values from lists and whose payload from bodies
RequestsOver(ep, texts, lists, bodies) ==
    {[route |-> ro, header |-> h, query |-> q, body |-> b, form |-> fo] :
        ro \in [SourceNames(ep.parser, "route") -> texts],
        h \in [SourceNames(ep.parser, "header") -> texts],
        q \in [SourceNames(ep.parser, "query") -> lists],
        b \in IF ep.parser.hasBodyField THEN bodies ELSE {EmptyBody},
        fo \in Forms(SourceNames(ep.parser, "form"))}

\* the requests that can reach the endpoint's handler
Requests(ep) == RequestsOver(ep, Texts, QueryLists, Bodies)

-----------------------------------------------------------------------------
(* Serving a request *)

NoEndpoint == [Req |-> [name |-> "", fields |-> <<>>], Resp |-> <<>>, parser |-> 0]
NoHTTPRequest == [route |-> <<>>, header |-> <<>>, query |-> <<>>,
                  body |-> [kind |-> "none", members |-> <<>>, rest |-> <<>>],
                  form |-> NotMultipart]
NoResult == [err |-> "", value |-> NoValue]
NoOutcome == [served |-> FALSE]

\* a request arrives at the endpoint's handler
Receive ==
    /\ request = NoHTTPRequest
    /\ request' \in Requests(endpoint)
    /\ outcome' = NoOutcome
    /\ UNCHANGED endpoint
    /\ UNCHANGED routerVars

\* the typed handler function after parseWithPlan returned p: the handler,
\* if called, returns result
Respond(Resp, p, result) ==
    LET unhandled(writes) ==
            [served |-> TRUE, parse |-> p, handlerCalls |-> 0,
             result |-> NoResult, writes |-> writes]
        handled(write) ==
            [served |-> TRUE, parse |-> p, handlerCalls |-> 1,
             result |-> result, writes |-> <<write>>]
    IN  CASE p.status = "panic" -> unhandled(<<>>)
          [] p.status = "validation" ->
                unhandled(<<writeValidationError(StatusBadRequest, p.fields)>>)
          [] p.status = "error" ->
                unhandled(<<writeError(StatusBadRequest, p.err)>>)
          [] OTHER ->
                IF result.err # ""
                THEN handled(writeError(StatusInternalServerError, result.err))
                ELSE handled(writeResponse(Resp, result.value))

HandlerOutcome(ep, r, result) ==
    Respond(ep.Resp, parseWithPlan(r, ep.parser), result)

\* the http.HandlerFunc returned by createTypeSafeHandler
TypeSafeHandler(result) ==
    /\ request # NoHTTPRequest
    /\ outcome = NoOutcome
    /\ outcome' = HandlerOutcome(endpoint, request, result)
    /\ UNCHANGED <<endpoint, request>>
    /\ UNCHANGED routerVars

ParseIdle ==
    /\ endpoint = NoEndpoint
    /\ request = NoHTTPRequest
    /\ outcome = NoOutcome

ParseInit ==
    /\ endpoint \in EndpointLibrary
    /\ request = NoHTTPRequest
    /\ outcome = NoOutcome

ParseNext ==
    \/ Receive
    \/ \E result \in HandlerResults(endpoint.Resp) : TypeSafeHandler(result)

-----------------------------------------------------------------------------
(* Serving several requests at once.  net/http runs the handler function of *)
(* createTypeSafeHandler on one goroutine per request; the goroutines share *)
(* the endpoint and its parse plan and interleave between any two steps of  *)
(* parseWithPlan.  A request value lives at an address of reqValues.           *)

MaxTasks == 2

Tasks == 1..MaxTasks

ServingLibrary ==
    {NewEndpoint(ItemsRequest, ItemType),
     NewEndpoint(MemberRequest, StatusResponseOf(ItemType)),
     NewEndpoint(UploadAvatarRequest, DeleteUserResponseType)}

ServingBodies ==
    {MalformedBody,
     [kind |-> "object", rest |-> <<>>,
      members |-> << <<"name", JString(<<"a", "b", "c">>)>>, <<"age", JNumber(30)>> >>],
     [kind |-> "object", rest |-> <<>>,
      members |-> << <<"name", JString(<<"a", "b", "c">>)>>, <<"age", JNumber(17)>> >>]}

ServingRequests(ep) ==
    RequestsOver(ep, {<<"1", "2">>, <<"a", "b", "c">>},
                 {<<>>, << <<"7">>, <<"8">> >>}, ServingBodies)

NoTask ==
    [pc |-> "idle", request |-> NoHTTPRequest, req |-> 0, i |-> 0,
     parse |-> [status |-> "", err |-> <<>>, fields |-> {}, trace |-> <<>>],
     handlerCalls |-> 0, received |-> <<>>, result |-> NoResult,
     writes |-> <<>>, overlapped |-> FALSE]

InFlight(t) == tasks[t].pc \notin {"idle", "done"}

\* (mutant) one request value for the handler function, shared by its calls
SharedRequestValue(t) == 1

\* var req Req: a new variable in each call of the handler function
NewRequestValue(t) == t

\* the state of parseWithPlan in task t, with the request value it works on
Parsing(t) ==
    [status |-> tasks[t].parse.status, err |-> tasks[t].parse.err,
     fields |-> tasks[t].parse.fields, value |-> reqValues[tasks[t].req],
     trace |-> tasks[t].parse.trace]

\* the state of parseWithPlan without the request value
Progress(p) ==
    [status |-> p.status, err |-> p.err, fields |-> p.fields, trace |-> p.trace]

\* where parseWithPlan goes once the loop over the bindings is over
AfterBindings(parser) == IF parser.hasBodyField THEN "body" ELSE "validate"

\* parseWithPlan returned an error (or panicked) in task t: the handler
\* function writes the 400 response and returns
Refused(t, p) ==
    [tasks[t] EXCEPT !.pc = "done", !.parse = Progress(p),
                     !.writes = Respond(endpoint.Resp, p, NoResult).writes]

\* parseWithPlan moves on to step pc in task t; a turn of the loop moves
\* to the following binding
Continued(t, p, pc) ==
    [tasks[t] EXCEPT !.pc = pc, !.parse = Progress(p),
                     !.i = IF tasks[t].pc = "bind" THEN @ + 1 ELSE @]

\* a step of parseWithPlan in task t ended in state p
Stepped(t, p, pc) == IF p.status # "ok" THEN Refused(t, p) ELSE Continued(t, p, pc)

\* the state of parseWithPlan after a turn of its loop that ended in st
Turn(st) ==
    [status |-> IF st.status = "next" THEN "ok" ELSE st.status,
     err |-> st.err, fields |-> {}, value |-> st.value, trace |-> st.trace]

\* the step of task t wrote the request value of p and ended in state p
Wrote(t, p, pc) ==
    /\ reqValues' = [reqValues EXCEPT ![tasks[t].req] = p.value]
    /\ tasks' = [tasks EXCEPT ![t] = Stepped(t, p, pc)]

\* the server calls the handler function for request r on goroutine t
Accept(t, r) ==
    /\ tasks[t].pc = "idle"
    /\ tasks' = [tasks EXCEPT ![t] =
          [NoTask EXCEPT
              !.pc = IF Len(endpoint.parser.fieldParsers) = 0
                     THEN AfterBindings(endpoint.parser) ELSE "bind",
              !.request = r,
              !.req = NewRequestValue(t),
              !.i = 1,
              !.parse.status = "ok",
              !.overlapped = \E u \in Tasks \ {t} : InFlight(u)]]
    /\ reqValues' = [reqValues EXCEPT ![NewRequestValue(t)] =
                     ZeroValue(endpoint.parser.requestType)]
    /\ UNCHANGED endpoint

\* one turn of the loop of parseWithPlan in task t
Bind(t) ==
    /\ tasks[t].pc = "bind"
    /\ Wrote(t, Turn(ApplyFieldParser(tasks[t].request,
                                      endpoint.parser.fieldParsers[tasks[t].i],
                                      tasks[t].i,
                                      [status |-> "next", err |-> <<>>,
                                       value |-> reqValues[tasks[t].req],
                                       trace |-> tasks[t].parse.trace])),
             IF tasks[t].i = Len(endpoint.parser.fieldParsers)
             THEN AfterBindings(endpoint.parser) ELSE "bind")
    /\ UNCHANGED endpoint

\* parseBody in task t
Decode(t) ==
    /\ tasks[t].pc = "body"
    /\ Wrote(t, DecodeBody(tasks[t].request, endpoint.parser, Parsing(t),
                           parseBody(tasks[t].request,
                                     endpoint.parser.requestType.fields[
                                         endpoint.parser.bodyFieldIdx])),
             "validate")
    /\ UNCHANGED endpoint

\* f.validator.Struct in task t
Validate(t) ==
    /\ tasks[t].pc = "validate"
    /\ tasks' = [tasks EXCEPT ![t] =
          Stepped(t, ValidateDecoded(endpoint.parser, Parsing(t)), "handler")]
    /\ UNCHANGED <<endpoint, reqValues>>

\* handler(r.Context(), req) in task t, the request value passed by value,
\* and the response written
Handle(t, result) ==
    /\ tasks[t].pc = "handler"
    /\ tasks' = [tasks EXCEPT ![t] =
          [@ EXCEPT !.pc = "done",
                    !.handlerCalls = 1,
                    !.received = reqValues[tasks[t].req],
                    !.result = result,
                    !.writes = Respond(endpoint.Resp, Parsing(t), result).writes]]
    /\ UNCHANGED <<endpoint, reqValues>>

ServingInit ==
    /\ endpoint \in ServingLibrary
    /\ request = NoHTTPRequest
    /\ outcome = NoOutcome
    /\ tasks = [t \in Tasks |-> NoTask]
    /\ reqValues = [a \in Tasks |-> <<>>]

NoTasks ==
    /\ tasks = <<>>
    /\ reqValues = <<>>

ServingNext ==
    \/ \E t \in Tasks : \E r \in ServingRequests(endpoint) : Accept(t, r)
    \/ \E t \in Tasks : Bind(t)
    \/ \E t \in Tasks : Decode(t)
    \/ \E t \in Tasks : Validate(t)
    \/ \E t \in Tasks : \E result \in HandlerResults(endpoint.Resp) : Handle(t, result)

-----------------------------------------------------------------------------
(* The field setters on their own: the setter createFieldSetter returns for *)
(* a field kind, called with a text on a field of that kind.                *)

MaxTextLen == 3

ConvertChars == {"0", "1", "3", "-", "+", " ", "a", "_"}

\* texts too long to enumerate: 70000 and -40000 exceed 16 bits
LongTexts == {<<"7", "0", "0", "0", "0">>, <<"-", "4", "0", "0", "0", "0">>}

ConvertTexts ==
    UNION {[1..k -> ConvertChars] : k \in 0..MaxTextLen} \cup LongTexts

ConvertKinds ==
    IntKinds \cup UintKinds \cup FloatKinds \cup {"string", "bool", "complex128"}

NoConversion == [kind |-> "", text |-> <<>>, called |-> FALSE, result |-> SetterPanic]

NoConversions == conversion = NoConversion

ConvertInit ==
    conversion \in {[NoConversion EXCEPT !.kind = k, !.text = t] :
                       k \in ConvertKinds, t \in ConvertTexts}

\* setter(fieldValue, value) with setter := createFieldSetter(kind)
Convert ==
    /\ ~conversion.called
    /\ conversion.kind # ""
    /\ conversion' =
          [conversion EXCEPT
              !.called = TRUE,
              !.result = CallSetter(createFieldSetter(conversion.kind),
                                    conversion.kind, conversion.text)]

ConvertNext == Convert

-----------------------------------------------------------------------------
(* Specifications *)

vars == <<routerVars, parseVars, schemaVars, servingVars, convertVars>>

NoDocuments == generated = <<>>

Init == RouterInit /\ ParseIdle /\ NoDocuments /\ NoTasks /\ NoConversions

Next == ComposeNext /\ UNCHANGED <<parseVars, schemaVars, servingVars, convertVars>>

Spec == Init /\ [][Next]_vars

SpecRegistry ==
    Init /\ [][RegistryNext
                /\ UNCHANGED <<parseVars, schemaVars, servingVars, convertVars>>]_vars

InitParse == RouterInit /\ ParseInit /\ NoDocuments /\ NoTasks /\ NoConversions

SpecParse ==
    InitParse /\ [][ParseNext /\ UNCHANGED <<schemaVars, servingVars, convertVars>>]_vars

SpecSchema ==
    Init /\ [][SchemaNext /\ UNCHANGED <<parseVars, servingVars, convertVars>>]_vars

InitServing == RouterInit /\ ServingInit /\ NoDocuments /\ NoConversions

SpecServing ==
    InitServing
    /\ [][ServingNext
          /\ UNCHANGED <<routerVars, request, outcome, schemaVars, convertVars>>]_vars

InitConvert == RouterInit /\ ParseIdle /\ NoDocuments /\ NoTasks /\ ConvertInit

SpecConvert ==
    InitConvert
    /\ [][ConvertNext
          /\ UNCHANGED <<routerVars, parseVars, schemaVars, servingVars>>]_vars
-----------------------------------------------------------------------------
(* Claims about the registry and router composition *)

IsPrefix(a, b) == Len(a) <= Len(b) /\ SubSeq(b, 1, Len(a)) = a

\* the events a request must see through middleware ms around endpoint e
ExpectedLog(ms, e) ==
    [i \in 1..(2 * Len(ms) + 1) |->
        IF i <= Len(ms) THEN <<"enter", ms[i]>>
        ELSE IF i = Len(ms) + 1 THEN <<"handler", e>>
        ELSE <<"exit", ms[2 * Len(ms) + 2 - i]>>]

\* C1: a request to an endpoint enters the middleware of its group in the
\* order they were declared, then the endpoint's own middleware in the order
\* they were declared, then the handler, and leaves them in the reverse
\* order: the first middleware added is the outermost wrapper.
C1_MiddlewareOrder ==
    lastRequest # NoRequest =>
        lastRequest.log =
            ExpectedLog(lastRequest.regGroup \o lastRequest.regEndpoint, lastRequest.spec)

\* a request went through group middleware [A, B] and endpoint middleware [C]
C1_Witness ==
    /\ lastRequest # NoRequest
    /\ lastRequest.regGroup = << <<"group", 1, 1>>, <<"group", 1, 2>> >>
    /\ lastRequest.regEndpoint = << <<"endpoint", 1, 1>> >>
    /\ lastRequest.log = << <<"enter", <<"group", 1, 1>>>>,
                            <<"enter", <<"group", 1, 2>>>>,
                            <<"enter", <<"endpoint", 1, 1>>>>,
                            <<"handler", 1>>,
                            <<"exit", <<"endpoint", 1, 1>>>>,
                            <<"exit", <<"group", 1, 2>>>>,
                            <<"exit", <<"group", 1, 1>>>> >>

\* C2: a Use on one group leaves the middleware list of every other group
\* unchanged (a child's list after parent.Use, the parent's list after
\* child.Use), and a group's list always starts with the entries it
\* inherited when it was created, in their order.
C2_GroupSnapshot ==
    /\ [][\A g \in 1..Len(groups), n \in UseArgCounts :
            GroupUse(g, n) =>
                \A h \in 1..Len(groups) : h # g => GroupMws(h)' = GroupMws(h)]_vars
    /\ [](\A g \in 1..Len(groups) : IsPrefix(groups[g].inherited, GroupMws(g)))

\* a child that inherited entries and added its own, under a parent that
\* added entries after the child was created
C2_Witness ==
    \E g \in 1..Len(groups) :
        /\ groups[g].parent # FrameworkRouter
        /\ groups[g].inherited # <<>>
        /\ Len(GroupMws(g)) > Len(groups[g].inherited)
        /\ Len(GroupMws(groups[g].parent)) > Len(groups[g].inherited)
        /\ GroupMws(g) # GroupMws(groups[g].parent)

\* what the registry shows of endpoint record e
RegistryRecord(e) ==
    <<specs[e].Method, specs[e].FullPath, specs[e].Summary, specs[e].Description,
      specs[e].Tags>>

\* C3: once a record is in the registry, no call changes its method, full
\* path, summary, description or tags, and the registry only grows by
\* appending.
C3_RegistryImmutable ==
    [][/\ IsPrefix(endpoints, endpoints')
       /\ \A i \in 1..Len(endpoints) :
             RegistryRecord(endpoints[i])' = RegistryRecord(endpoints[i])]_vars

\* C4: the parse plan of an endpoint is built once, when the endpoint is
\* created: the number of plan compilations equals the number of endpoints
\* created whatever was registered or served since, and a request is parsed
\* with the plan built when its endpoint was created.
C4_PlanBuiltOnce ==
    /\ planBuilds = Len(specs)
    /\ \A e \in 1..Len(specs) : specs[e].parser = e
    /\ lastRequest # NoRequest => lastRequest.usedParser = specs[lastRequest.spec].parser

\* a request was served by the second endpoint, registered twice
C4_Witness ==
    /\ lastRequest # NoRequest
    /\ lastRequest.spec = 2
    /\ lastRequest.usedParser = 2
    /\ Len(endpoints) = 2
    /\ endpoints[1] = 2 /\ endpoints[2] = 2


\* the number of times endpoint record e was registered
Registrations(regs, e) == Cardinality({i \in 1..Len(regs) : regs[i] = e})

\* C26: the middleware list recorded for a registered endpoint
\* (AllMiddlewares) is not changed by later operations: as long as the
\* endpoint itself is not registered again, registering other endpoints and
\* calling Use on its group leave its recorded list unchanged, and a
\* registration leaves the middleware list of every group unchanged.
C26_AllMiddlewaresFrozen ==
    [][/\ \A i \in 1..Len(endpoints) :
             Registrations(endpoints', endpoints[i]) = Registrations(endpoints, endpoints[i])
                => AllMws(endpoints[i])' = AllMws(endpoints[i])
       /\ Len(endpoints') > Len(endpoints) =>
             \A g \in 1..Len(groups) : GroupMws(g)' = GroupMws(g)]_vars

\* the middleware a request entered, in the order it entered them
Entered(log) ==
    LET enters == SelectSeq(log, LAMBDA ev : ev[1] = "enter")
    IN  [k \in 1..Len(enters) |-> enters[k][2]]

\* the middleware list router r shows
RouterMws(r) == SliceElems(heap, getMiddlewares(r))

\* C27: the chain executed for an endpoint is fixed when it is registered: a
\* request enters exactly the middleware its group and the endpoint showed
\* at registration, whatever was added to them since, and the chain of an
\* endpoint registered later holds all the middleware its group shows then.
C27_ChainFixedAtRegistration ==
    /\ [](lastRequest # NoRequest =>
            Entered(lastRequest.log) =
                mux[lastRequest.pattern].regGroup \o mux[lastRequest.pattern].regEndpoint)
    /\ [][/\ \A p \in DOMAIN mux : mux'[p] = mux[p]
          /\ \A p \in (DOMAIN mux') \ (DOMAIN mux) :
                mux'[p].h.chain =
                    RouterMws(mux'[p].router) \o EndpointMws(mux'[p].h.spec)]_vars

\* two endpoints of one group, the group given middleware between their
\* registrations: a request to the first entered only the earlier middleware
\* although its group shows more now, and the chain of the second has both
C27_Witness ==
    /\ lastRequest # NoRequest
    /\ mux[lastRequest.pattern].router # FrameworkRouter
    /\ Entered(lastRequest.log) = << <<"group", 1, 1>> >>
    /\ GroupMws(mux[lastRequest.pattern].router) =
          << <<"group", 1, 1>>, <<"group", 1, 2>> >>
    /\ \E q \in DOMAIN mux :
          /\ q # lastRequest.pattern
          /\ mux[q].router = mux[lastRequest.pattern].router
          /\ mux[q].h.chain = << <<"group", 1, 1>>, <<"group", 1, 2>> >>

-----------------------------------------------------------------------------
(* Claims about the parse executor and the response writer *)

Plan == endpoint.parser
Parse == outcome.parse
Events == {Parse.trace[k] : k \in 1..Len(Parse.trace)}
Bindings == 1..Len(Plan.fieldParsers)

\* the field of the request type that binding i fills
BoundField(i) ==
    endpoint.Req.fields[Plan.fieldParsers[i].fieldIndex]
        .fields[Plan.fieldParsers[i].nestedFieldIndex]

\* the value the executor left in the field of binding i
BoundValue(i) ==
    Parse.value[Plan.fieldParsers[i].fieldIndex][Plan.fieldParsers[i].nestedFieldIndex]

\* the executor got as far as binding i: it did not stop at an earlier one
Reached(i) ==
    \/ Parse.status \in {"ok", "validation"}
    \/ <<"body">> \in Events
    \/ \E k \in Bindings : k >= i /\ Parse.trace[Len(Parse.trace)] = <<"bind", k>>

\* C5: every request has exactly one outcome: the handler runs at most once
\* and only after a successful parse; a binding, decode or validation
\* failure writes one 400 response and the handler does not run; a handler
\* error writes one 500 response carrying the message; otherwise the
\* response writer writes the handler's result.
C5_ExactlyOneOutcome ==
    outcome.served =>
        /\ outcome.handlerCalls <= 1
        /\ outcome.handlerCalls = 1 => Parse.status = "ok"
        /\ Len(outcome.writes) = 1
        /\ Parse.status # "ok" =>
              /\ outcome.handlerCalls = 0
              /\ outcome.writes[1].status = StatusBadRequest
        /\ Parse.status = "ok" /\ outcome.result.err # "" =>
              outcome.writes[1] =
                  writeError(StatusInternalServerError, outcome.result.err)
        /\ Parse.status = "ok" /\ outcome.result.err = "" =>
              outcome.writes[1] = writeResponse(endpoint.Resp, outcome.result.value)

\* a present scalar value of binding i that its converter rejects
ConverterFails(i) ==
    LET fp == Plan.fieldParsers[i]
    IN  /\ fp.sourceType \in {"route", "header", "query"}
        /\ ~fp.isSlice
        /\ ScalarValue(request, fp) # <<>>
        /\ CallSetter(fp.setter, fp.fieldType.kind, ScalarValue(request, fp)).status
              = "error"

\* C6: a present scalar route, header or query value whose converter fails
\* aborts parsing at that binding with the error "<category> '<name>':
\* <reason>"; no later binding is applied, the body is not decoded and
\* validation does not run.
C6_FailFast ==
    outcome.served =>
        \A i \in Bindings :
            ConverterFails(i) /\ Reached(i) =>
                LET fp == Plan.fieldParsers[i]
                    reason == CallSetter(fp.setter, fp.fieldType.kind,
                                         ScalarValue(request, fp)).err
                IN  /\ Parse.status = "error"
                    /\ Parse.err = <<fp.sourceType, " '", fp.sourceName, "': ">> \o reason
                    /\ Parse.trace[Len(Parse.trace)] = <<"bind", i>>
                    /\ \A k \in Bindings : k > i => <<"bind", k>> \notin Events
                    /\ \A k \in Bindings : k > i => BoundValue(k) = ZeroLeaf(BoundField(k))
                    /\ <<"body">> \notin Events
                    /\ <<"validate">> \notin Events
                    /\ outcome.handlerCalls = 0

\* the route value "abc" of an integer field stops the request although the
\* header that follows is present and the body is a valid document
C6_Witness ==
    /\ outcome.served
    /\ endpoint.Req.name = "MemberRequest"
    /\ ConverterFails(1)
    /\ request.route["org"] = <<"a", "b", "c">>
    /\ request.header["X-API-Key"] # <<>>
    /\ request.body.kind = "object"
    /\ Len(request.body.members) = 2
    /\ Parse.err = <<"route", " '", "org", "': ", "invalid integer value">>
    /\ Parse.trace = <<<<"bind", 1>>>>

\* the conversion of one element of a slice-typed binding
Element(i, text) ==
    CallSetter(Plan.fieldParsers[i].setter, Plan.fieldParsers[i].fieldType.elem, text)

SliceQueryBindings ==
    {i \in Bindings : Plan.fieldParsers[i].isSlice
                      /\ Plan.fieldParsers[i].sourceType = "query"}

\* C7: a slice-typed query binding whose key the request carries K >= 1
\* times holds exactly K elements, the k-th being the conversion of the k-th
\* value; with no value the field stays empty and the binding raises no
\* error; an element that fails to convert fails the whole request.
C7_SliceQuery ==
    outcome.served =>
        \A i \in SliceQueryBindings :
            LET values == QueryValues(request, Plan.fieldParsers[i].sourceName)
                K == Len(values)
                converts == \A k \in 1..K : Element(i, values[k]).status = "set"
            IN  Reached(i) =>
                    /\ K = 0 =>
                          /\ BoundValue(i) = <<>>
                          /\ <<"bind", i>> \notin Events
                    /\ K >= 1 /\ converts =>
                          /\ Len(BoundValue(i)) = K
                          /\ \A k \in 1..K : BoundValue(i)[k] = Element(i, values[k]).val
                    /\ K >= 1 /\ ~converts =>
                          /\ Parse.status = "error"
                          /\ outcome.handlerCalls = 0
                          /\ Len(outcome.writes) = 1
                          /\ outcome.writes[1].status = StatusBadRequest

\* ?ids=8&ids=7 reached the handler as the two integers 8 and 7, in this order
C7_Witness ==
    /\ outcome.served
    /\ endpoint.Req.name = "ItemsRequest"
    /\ request.query["ids"] = <<<<"8">>, <<"7">>>>
    /\ Parse.status = "ok"
    /\ BoundValue(3) = <<8, 7>>
    /\ outcome.handlerCalls = 1

\* the Body field of the request type, its fields and their decoded values
BodyType == endpoint.Req.fields[Plan.bodyFieldIdx]
BodyFields == 1..Len(BodyType.fields)
BodyValue(j) == Parse.value[Plan.bodyFieldIdx][j]

\* C8: when the body decodes and one of its properties violates a
\* validation rule, the request is rejected with a validation failure whose
\* record names the property by its serialized name, with source "body";
\* when the request satisfies every rule it reaches the handler.
C8_BodyFieldName ==
    outcome.served /\ Plan.hasBodyField /\ <<"validate">> \in Events =>
        /\ \A j \in BodyFields :
              FailedRules(BodyType.fields[j], BodyValue(j)) # <<>> =>
                  /\ Parse.status = "validation"
                  /\ outcome.handlerCalls = 0
                  /\ \E rec \in Parse.fields :
                        /\ rec.Field = JSONName(BodyType.fields[j])
                        /\ rec.SourceType = "body"
        /\ ValidatorStruct(endpoint.Req, Parse.value, 1) = <<>> =>
              outcome.handlerCalls = 1

FileBindings ==
    {i \in Bindings : Plan.fieldParsers[i].sourceType = "form"
                      /\ Plan.fieldParsers[i].isFileField}

RequiredByValidation(i) ==
    \E k \in 1..Len(BoundField(i).validate) : BoundField(i).validate[k] = Required

\* C9: when the part of a file field required by validation is absent from
\* a multipart request, the executor raises no binding error for it and
\* leaves the field empty, validation rejects the request reporting the
\* field as required, and the handler is not called.
C9_MissingRequiredFile ==
    outcome.served =>
        \A i \in FileBindings :
            /\ RequiredByValidation(i)
            /\ request.form.multipart
            /\ Plan.fieldParsers[i].sourceName \notin DOMAIN request.form.files
            /\ Reached(i)
            =>  /\ ~(Parse.status = "error"
                     /\ Parse.trace[Len(Parse.trace)] = <<"bind", i>>)
                /\ BoundValue(i) = ZeroFileField
                /\ Parse.status = "validation"
                /\ \E rec \in Parse.fields :
                      /\ rec.Field = Plan.fieldParsers[i].sourceName
                      /\ rec.SourceType = "form"
                      /\ \E k \in 1..Len(rec.Errors) :
                            rec.Errors[k] = <<"failed validation: ", "required">>
                /\ outcome.handlerCalls = 0

\* C10: a handler result StatusResponse{Code: c, Body: b} is written with
\* status c and the serialization of b alone as its payload.
C10_StatusResponse ==
    /\ outcome.served
    /\ outcome.handlerCalls = 1
    /\ outcome.result.err = ""
    /\ outcome.result.value.type[1] = "StatusResponse"
    =>  /\ Len(outcome.writes) = 1
        /\ outcome.writes[1].status = outcome.result.value.Code
        /\ outcome.writes[1].body = JSONEncode(outcome.result.value.Body)

\* the handler was called and returned a value, not an error
Returned ==
    outcome.served /\ outcome.handlerCalls = 1 /\ outcome.result.err = ""

C12_EmptyResponse ==
    (Returned /\ outcome.result.value.type = DeleteUserResponseType)
        => /\ Len(outcome.writes) = 1
           /\ outcome.writes[1].status = StatusNoContent

\* the payload is not one well-formed JSON value
Malformed(body) == body.kind \in {"empty", "malformed"} \/ body.rest # <<>>

\* the payload holds a property the body shape does not declare
UndeclaredProperty(body) ==
    \E k \in 1..Len(body.members) :
        \A j \in BodyFields : JSONName(BodyType.fields[j]) # body.members[k][1]

\* C18: the body is decoded only after every non-body binding of the plan has
\* been applied successfully, and decoding is strict: a payload that is
\* malformed or that holds a property the body shape does not declare makes
\* the request fail with a decode error (400) before validation runs and
\* without the handler being called.
C18_StrictBody ==
    (outcome.served /\ Plan.hasBodyField /\ <<"body">> \in Events) =>
        /\ \A k, m \in 1..Len(Parse.trace) :
              Parse.trace[k] = <<"body">> /\ Parse.trace[m][1] = "bind" => m < k
        /\ \A i \in Bindings :
              /\ ~ConverterFails(i)
              /\ ScalarValue(request, Plan.fieldParsers[i]) # <<>>
                    => <<"bind", i>> \in Events
        /\ (Malformed(request.body) \/ UndeclaredProperty(request.body)) =>
              /\ Parse.status = "error"
              /\ <<"validate">> \notin Events
              /\ outcome.handlerCalls = 0
              /\ Len(outcome.writes) = 1
              /\ outcome.writes[1].status = StatusBadRequest

\* the file bindings whose stream parseFileField opened for the request
OpenedStreams == {i \in FileBindings : BoundValue(i).Content = "open"}

\* C20: every stream the executor opened for a file binding is still open
\* when the request ends (the executor never closes one) and was handed to
\* the handler: whenever a stream was opened, the handler was called with
\* the request value that holds it.
C20_StreamsHanded ==
    outcome.served =>
        /\ \A i \in FileBindings : BoundValue(i).Content \in {"nil", "open"}
        /\ OpenedStreams # {} => outcome.handlerCalls = 1

\* the route, header and query bindings whose field kind createFieldSetter
\* has no case for
UnsupportedBindings ==
    {i \in Bindings : /\ Plan.fieldParsers[i].sourceType \in {"route", "header", "query"}
                      /\ BoundField(i).kind
                            \notin IntKinds \cup UintKinds \cup FloatKinds
                                   \cup {"string", "bool", "slice"}}

\* the request carries a value for binding i
Supplied(i) == ScalarValue(request, Plan.fieldParsers[i]) # <<>>

\* the nested fields of the Route, Header and Query groups of the request type
GroupFields ==
    UNION {{<<g, j>> : j \in 1..Len(endpoint.Req.fields[g].fields)} :
              g \in {k \in 1..Len(endpoint.Req.fields) :
                        endpoint.Req.fields[k].name \in {"Route", "Header", "Query"}}}

Violations == ValidatorStruct(endpoint.Req, Parse.value, 1)

\* the route, header, query and form bindings that fill the field a
\* violation is about
BindingsOf(e) ==
    {i \in Bindings :
        /\ Plan.fieldParsers[i].sourceType \in {"route", "header", "query", "form"}
        /\ e.namespace = <<endpoint.Req.name,
                           endpoint.Req.fields[Plan.fieldParsers[i].fieldIndex].name,
                           BoundField(i).name>>}

InBody(e) == Len(e.namespace) >= 2 /\ e.namespace[2] = "Body"

\* the failure list has a record with this name and category that carries
\* the message of violation e
Reported(e, name, category) ==
    \E rec \in Parse.fields :
        /\ rec.Field = name
        /\ rec.SourceType = category
        /\ \E m \in 1..Len(rec.Errors) : rec.Errors[m] = <<"failed validation: ", e.tag>>

\* C23: when validation fails, every violation the validator reports is in
\* the failure list: a violation on a field filled by a route, header, query
\* or form binding under that binding's name and category, a violation in
\* the body under the category body, and a violation whose path belongs to
\* no binding under its Go field name with the empty category.
C23_ViolationsReported ==
    outcome.served /\ Parse.status = "validation" =>
        /\ Violations # <<>>
        /\ \A k \in 1..Len(Violations) :
              LET e == Violations[k]
              IN  /\ \A i \in BindingsOf(e) :
                        Reported(e, Plan.fieldParsers[i].sourceName,
                                 Plan.fieldParsers[i].sourceType)
                  /\ BindingsOf(e) = {} /\ ~InBody(e) => Reported(e, e.field, "")
                  /\ InBody(e) => \E rec \in Parse.fields :
                                      Reported(e, rec.Field, "body")

\* a request type declared with source tags on top-level fields: the
\* violations of APIKey and Page resolve to no binding
C23_Witness ==
    /\ outcome.served
    /\ Parse.status = "validation"
    /\ endpoint.Req.name = "PatchUserRequest"
    /\ \E rec \in Parse.fields : rec.Field = "APIKey" /\ rec.SourceType = ""
    /\ \E rec \in Parse.fields : rec.Field = "Name" /\ rec.SourceType = "body"

\* the fields of the request value the validator reports a violation for
OffendingFields == {Violations[k].namespace : k \in 1..Len(Violations)}

\* the violations of the field at path
ViolationsOf(path) == {k \in 1..Len(Violations) : Violations[k].namespace = path}

\* C24: the failure list has exactly one record per offending field; every
\* record has at least one message; the messages of a record are those of
\* the violations of one field, so violations of two different fields are
\* never filed in the same record.
C24_RecordPerField ==
    outcome.served /\ Parse.status = "validation" =>
        /\ Cardinality(Parse.fields) = Cardinality(OffendingFields)
        /\ \A rec \in Parse.fields : Len(rec.Errors) >= 1
        /\ \A rec \in Parse.fields :
              \E path \in OffendingFields :
                  Len(rec.Errors) = Cardinality(ViolationsOf(path))
        /\ \A k, m \in 1..Len(Violations) :
              FieldKey(Violations[k], Plan) = FieldKey(Violations[m], Plan)
              => Violations[k].namespace = Violations[m].namespace

\* the slice-typed bindings of the Header and Route groups for whose name
\* the request carries a value
SuppliedSliceBindings ==
    {i \in Bindings :
        /\ Plan.fieldParsers[i].isSlice
        /\ Plan.fieldParsers[i].sourceType \in {"header", "route"}
        /\ ScalarValue(request, Plan.fieldParsers[i]) # <<>>}

\* C28: parsing a request never panics and every request receives a
\* response; a slice-typed field of a Header or Route group whose name the
\* request carries a value for ends populated, or the request ends with the
\* error of that binding, classified by its source.
C28_ParseNeverPanics ==
    outcome.served =>
        /\ Parse.status \in {"ok", "validation", "error"}
        /\ Len(outcome.writes) = 1
        /\ \A i \in SuppliedSliceBindings :
              Reached(i) =>
                 \/ BoundValue(i) # <<>>
                 \/ /\ Parse.status = "error"
                    /\ IsPrefix(<<Plan.fieldParsers[i].sourceType, " '",
                                  Plan.fieldParsers[i].sourceName, "': ">>,
                                Parse.err)

\* the bindings of the Form group that are not file bindings
FormTextBindings ==
    {i \in Bindings :
        /\ Plan.fieldParsers[i].sourceType = "form"
        /\ ~Plan.fieldParsers[i].isFileField}

\* C30: a field of a Form group that is not a file field is never written:
\* whatever the request carries, the field holds its zero value after
\* parsing, its binding is not applied, and parsing does not end in an error
\* or a panic of that binding.
C30_FormTextUntouched ==
    outcome.served =>
        \A i \in FormTextBindings :
            /\ BoundValue(i) = ZeroLeaf(BoundField(i))
            /\ <<"bind", i>> \notin Events
            /\ Parse.status = "error" =>
                  /\ ~IsPrefix(<<"form '", Plan.fieldParsers[i].sourceName>>, Parse.err)
                  /\ ~IsPrefix(<<"form", " '", Plan.fieldParsers[i].sourceName>>,
                               Parse.err)

\* a multipart request carried values for both text fields of the form and
\* a file part, and parsing went through every binding
C30_Witness ==
    /\ outcome.served
    /\ FormTextBindings # {}
    /\ request.form.multipart
    /\ \A i \in FormTextBindings :
          Plan.fieldParsers[i].sourceName \in DOMAIN request.form.values
    /\ DOMAIN request.form.files # {}
    /\ Parse.status \in {"ok", "validation"}
    /\ \A i \in FormTextBindings : BoundValue(i) = <<>>

-----------------------------------------------------------------------------
(* Claims about the registration helpers and the schema generator *)

\* the operation a document lists under a path and an HTTP method
OperationAt(doc, path, method) ==
    IF path \notin DOMAIN doc.Paths THEN <<>>
    ELSE CASE method = "GET" -> doc.Paths[path].Get
           [] method = "POST" -> doc.Paths[path].Post
           [] method = "PUT" -> doc.Paths[path].Put
           [] method = "PATCH" -> doc.Paths[path].Patch
           [] method = "DELETE" -> doc.Paths[path].Delete
           [] OTHER -> <<>>

\* the endpoint is routed for the method at the path, and a document
\* generated now lists an operation under them
RoutedAndDocumented(method, path) ==
    /\ Pattern(method, path) \in DOMAIN mux
    /\ OperationAt(OpenAPISpec("t", "d", "v"), path, method) # <<>>

\* C13: each of the helpers GET, POST, PUT, PATCH and DELETE registers an
\* endpoint whose method is the helper's name: after the call the endpoint
\* is routed for that method at its full path and a generated document
\* lists it under that method (PATCH registers a PATCH endpoint).
C13_HelperMethods ==
    [][\A r \in Routers, call \in HelperCalls :
          /\ (GET(r, call) /\ ~crashed')
                => RoutedAndDocumented("GET", getPrefix(r) \o call.path)'
          /\ (POST(r, call) /\ ~crashed')
                => RoutedAndDocumented("POST", getPrefix(r) \o call.path)'
          /\ (PUT(r, call) /\ ~crashed')
                => RoutedAndDocumented("PUT", getPrefix(r) \o call.path)'
          /\ (DELETE(r, call) /\ ~crashed')
                => RoutedAndDocumented("DELETE", getPrefix(r) \o call.path)'
          /\ (PATCH(r, call) /\ ~crashed')
                => RoutedAndDocumented("PATCH", getPrefix(r) \o call.path)']_vars

\* the prefixes of the groups enclosing router r, outermost first, as the
\* calls of Group gave them
RECURSIVE PrefixChain(_)
PrefixChain(r) ==
    IF r = FrameworkRouter THEN ""
    ELSE PrefixChain(groups[r].parent) \o groups[r].arg

\* C14: the full path of a registered endpoint is the concatenation of the
\* prefixes of all enclosing groups, outermost first, followed by the
\* endpoint's relative path, with nothing inserted, removed or normalized,
\* at any nesting depth; the endpoint is routed under that path.
C14_FullPath ==
    /\ \A i \in 1..Len(endpoints) :
          specs[endpoints[i]].FullPath =
              PrefixChain(specs[endpoints[i]].router)
                  \o specs[endpoints[i]].RelativePath
    /\ \A p \in DOMAIN mux :
          p = specs[mux[p].h.spec].Method \o " "
                \o PrefixChain(mux[p].router)
                \o specs[mux[p].h.spec].RelativePath

\* an endpoint registered on a group nested in a group whose prefix ends
\* with a slash: the slashes of the parts are all kept
C14_Witness ==
    \E i \in 1..Len(endpoints) :
        /\ specs[endpoints[i]].router # FrameworkRouter
        /\ groups[specs[endpoints[i]].router].parent # FrameworkRouter
        /\ groups[specs[endpoints[i]].router].arg = "/v1"
        /\ groups[groups[specs[endpoints[i]].router].parent].arg = "/api/"
        /\ specs[endpoints[i]].RelativePath = "/x"
        /\ specs[endpoints[i]].FullPath = "/api//v1/x"
        /\ "GET /api//v1/x" \in DOMAIN mux

HTTPMethods == {"GET", "POST", "PUT", "PATCH", "DELETE"}

\* where a parameter of the schema is found, for a source of the plan
ParameterLocation(sourceType) == IF sourceType = "route" THEN "path" ELSE sourceType

\* the route, header and query field bindings of the plan compiled for a
\* request type
ParameterBindings(reqType) ==
    {k \in 1..Len(buildRequestParser(reqType).fieldParsers) :
        buildRequestParser(reqType).fieldParsers[k].sourceType
            \in {"route", "header", "query"}}

\* C15: for every registered endpoint, the parameters of its generated
\* operation correspond one-to-one to the route, header and query field
\* bindings of its compiled parse plan: one parameter per binding, with the
\* binding's name and location, and no parameter without a binding.
C15_ParametersMatchPlan ==
    \A d \in 1..Len(generated) :
        \A i \in 1..Len(generated[d].registry) :
            generated[d].registry[i].Method \in HTTPMethods =>
                LET rec == generated[d].registry[i]
                    op == OperationAt(generated[d].spec, rec.FullPath, rec.Method)
                    fps == buildRequestParser(rec.RequestType).fieldParsers
                IN  /\ op # <<>>
                    /\ Len(op[1].Parameters)
                          = Cardinality(ParameterBindings(rec.RequestType))
                    /\ {<<op[1].Parameters[k].Name, op[1].Parameters[k].In>> :
                            k \in 1..Len(op[1].Parameters)}
                       = {<<fps[k].sourceName, ParameterLocation(fps[k].sourceType)>> :
                            k \in ParameterBindings(rec.RequestType)}

\* the operations a generated document lists for the records of the
\* registry it was made from
DocumentedOperations ==
    UNION {{[op |-> OperationAt(generated[d].spec,
                                generated[d].registry[i].FullPath,
                                generated[d].registry[i].Method)[1],
             reqType |-> generated[d].registry[i].RequestType] :
               i \in {k \in 1..Len(generated[d].registry) :
                         /\ generated[d].registry[k].Method \in HTTPMethods
                         /\ OperationAt(generated[d].spec,
                                        generated[d].registry[k].FullPath,
                                        generated[d].registry[k].Method) # <<>>}} :
              d \in 1..Len(generated)}

\* the fields of the body struct of a request type declared with a body tag
TaggedBodyFields(reqType) ==
    UNION {{reqType.fields[i].fields[j] : j \in 1..Len(reqType.fields[i].fields)} :
              i \in BodyFieldsTagged(reqType)}

HasRequiredRule(field) ==
    \E k \in 1..Len(field.validate) : field.validate[k] = Required

JSONBodySchemas(op) ==
    {op.RequestBody[b].Content["application/json"] :
        b \in {k \in 1..Len(op.RequestBody) :
                  "application/json" \in DOMAIN op.RequestBody[k].Content}}

RECURSIVE ExpandedAs(_, _)
ExpandedAs(schema, t) ==
    CASE t.kind = "struct" ->
            /\ schema.Type = "object"
            /\ DOMAIN schema.Properties = {PropertyName(t.fields[i]) : i \in Described(t)}
            /\ \A i \in Described(t) :
                  ExpandedAs(schema.Properties[PropertyName(t.fields[i])], t.fields[i])
      [] t.kind = "slice" ->
            /\ schema.Type = "array"
            /\ Len(schema.Items) = 1
            /\ ExpandedAs(schema.Items[1], ElemType(t))
      [] OTHER -> schema.Type \notin {"object", "array"}

\* the body structs of a request type declared with a body tag
TaggedBodies(reqType) == {reqType.fields[i] : i \in BodyFieldsTagged(reqType)}

\* C25: the request-body schema of every documented operation describes the
\* body type in full: a struct-typed property is expanded into its
\* sub-properties at every depth, and a slice-typed property has an items
\* schema built from its element type, expanded when the element is a struct.
C25_BodyExpanded ==
    \A o \in DocumentedOperations :
        \A schema \in JSONBodySchemas(o.op) :
            \E body \in TaggedBodies(o.reqType) : ExpandedAs(schema, body)
-----------------------------------------------------------------------------
(* Claims about requests served at once *)

\* what the handler function does with the request of task t when it is
\* served alone
ServedAlone(t) == HandlerOutcome(endpoint, tasks[t].request, tasks[t].result)

\* task t ended as its request ends when served alone
AsServedAlone(t, alone) ==
    /\ tasks[t].parse = Progress(alone.parse)
    /\ tasks[t].handlerCalls = alone.handlerCalls
    /\ tasks[t].writes = alone.writes
    /\ tasks[t].handlerCalls = 1 => tasks[t].received = alone.parse.value

\* C19: under any interleaving of the requests served at once by one
\* endpoint, no step of a request changes the endpoint record or its compiled
\* plan, two requests in flight never work on the same request value, and a
\* request ends as it ends when served alone: the same parse result, the
\* same response, and the handler, if called, receives the value bound from
\* its own request.
C19_IsolatedRequests ==
    /\ [][endpoint' = endpoint]_vars
    /\ [](\A t \in Tasks :
            /\ endpoint.parser = buildRequestParser(endpoint.Req)
            /\ \A u \in Tasks \ {t} :
                  InFlight(t) /\ InFlight(u) => tasks[t].req # tasks[u].req
            /\ tasks[t].pc = "done" => AsServedAlone(t, ServedAlone(t)))

\* two requests with different values were in flight together and both
\* reached the handler
C19_Witness ==
    /\ \A t \in Tasks : tasks[t].pc = "done" /\ tasks[t].handlerCalls = 1
    /\ \E t \in Tasks : tasks[t].overlapped
    /\ \E t, u \in Tasks : tasks[t].received # tasks[u].received

-----------------------------------------------------------------------------
(* Claims about the field setters *)

\* the whole text is a decimal integer: an optional sign and digits only
DecimalText(t) ==
    LET ds == IF t # <<>> /\ Head(t) \in Signs THEN Tail(t) ELSE t
    IN  ds # <<>> /\ \A i \in 1..Len(ds) : ds[i] \in Digits

\* the integer a decimal text denotes
Denoted(t) ==
    IF Head(t) = "-" THEN 0 - DecimalValue(Tail(t))
    ELSE IF Head(t) = "+" THEN DecimalValue(Tail(t))
    ELSE DecimalValue(t)

Negative(t) == t # <<>> /\ Head(t) = "-"

\* C21: the setter of a signed-integer kind accepts a text exactly when the
\* whole text is a decimal integer, stores the integer it denotes, and
\* rejects any other text with "invalid integer value"; the setter of an
\* unsigned-integer kind rejects every negative text and every text that is
\* not a decimal integer.
C21_DecimalConverters ==
    conversion.called =>
        /\ conversion.kind \in IntKinds =>
              IF DecimalText(conversion.text)
              THEN conversion.result = SetterSet(Denoted(conversion.text))
              ELSE conversion.result = SetterError(<<"invalid integer value">>)
        /\ conversion.kind \in UintKinds
           /\ (Negative(conversion.text) \/ ~DecimalText(conversion.text))
           => conversion.result.status = "error"

\* the integer n fits a field of this kind (the kinds of 32 and 64 bits hold
\* every integer the texts of the model denote)
Fits(kind, n) ==
    CASE Bits(kind) = 0 -> kind \in UintKinds => n >= 0
      [] kind \in UintKinds -> 0 <= n /\ n < 2 ^ Bits(kind)
      [] OTHER -> 0 - 2 ^ (Bits(kind) - 1) <= n /\ n < 2 ^ (Bits(kind) - 1)

\* C29: when the setter of an integer kind succeeds on a decimal text, the
\* field holds exactly the integer the text denotes, for every width; an
\* integer that does not fit the width of the field is rejected, not stored
\* truncated.
C29_NoTruncation ==
    /\ conversion.called
    /\ conversion.kind \in IntKinds \cup UintKinds
    /\ DecimalText(conversion.text)
    => /\ conversion.result.status = "set" =>
             conversion.result.val = Denoted(conversion.text)
       /\ ~Fits(conversion.kind, Denoted(conversion.text)) =>
             conversion.result.status = "error"
=============================================================================
